---- MODULE Spec2Model ----
(***************************************************************************)
(* Stop-loss monitoring loop of get_main.py (position snapshot, stop-order *)
(* reconciliation, stop-loss progression engine, action history) and the   *)
(* stop/take-profit update path of trader.py, against one shared futures   *)
(* exchange.                                                               *)
(*                                                                         *)
(* Prices are integers counted in units of 0.005, so 100.00 is 20000 and   *)
(* the default tick 0.01 is 2.  Percentages are integers counted in 0.01%, *)
(* so 0.05% is 5; a percentage of a price is kept as an exact fraction     *)
(* over PctDen until the code rounds it to a tick.  None is 0 for a stop   *)
(* price (the code tests "is None or <= 0" everywhere).                    *)
(***************************************************************************)
EXTENDS Integers, Sequences, FiniteSets, TLC

VARIABLES
    cfg,          \* command-line options of the monitor (fixed after start)
    now,          \* wall clock, seconds
    pc,           \* position of the monitor's main loop
    account,      \* exchange: open positions
    orders,       \* exchange: resting protective orders
    tickCache,    \* _symbol_price_filter_cache (0 = not cached)
    lastUpdate,   \* _last_sl_update_at (0.0 default)
    snapshot,     \* positions list of the current cycle
    idx,          \* next position of the snapshot the engine processes
    nowTs,        \* now_ts of the running engine call
    messages,     \* messages list of the running engine call
    history,      \* _sl_action_history
    calls,        \* exchange write calls issued by the last step, in order
    last,         \* evaluation of the position processed by the last step
    faults,       \* exchange calls that have failed so far
    symbolInfoCache,  \* trader: _symbol_info_cache (0 = not cached)
    traderRuns,   \* trader: _update_tp_sl calls made so far
    candidates,   \* reconciler on its own: position side and stop_orders list
    picked,       \* reconciler on its own: the price returned (-1 = not called)
    rateLimitBackoffSec,    \* _rate_limit_backoff_sec
    lastRateLimitNoticeTs,  \* _last_rate_limit_notice_ts
    rateLimitsLeft,  \* exchange: -1003 answers it still gives in this run
    pollsLeft,    \* cycles the main loop still starts in this run
    backoffSlept, \* backoff delay the previous cycle slept (0 = none)
    caught,       \* what the handler of the current cycle caught ("" = nothing)
    logFile,      \* lines written to --sl-log-file
    markPriceFeed,  \* exchange: futures_mark_price per symbol (0 = call fails)
    priceArg,     \* normalizer on its own: tick, price and position side
    normalized,   \* normalizer on its own: the prices returned
    signal,       \* scheduler: the AI signal its loop is looking at
    handed,       \* scheduler: what became of the signal ("" = not yet seen)
    pending       \* trader: the _update_tp_sl call that is in its sleep

vars == <<cfg, now, pc, account, orders, tickCache, lastUpdate, snapshot,
          idx, nowTs, messages, history, calls, last, faults,
          symbolInfoCache, traderRuns, candidates, picked,
          rateLimitBackoffSec, lastRateLimitNoticeTs, rateLimitsLeft,
          pollsLeft, backoffSlept, caught, logFile, markPriceFeed,
          priceArg, normalized, signal, handed, pending>>

pickVars == <<candidates, picked>>

normVars == <<priceArg, normalized>>

schedVars == <<signal, handed>>

handlerVars == <<rateLimitBackoffSec, lastRateLimitNoticeTs, backoffSlept,
                 caught>>

loopVars == <<handlerVars, rateLimitsLeft, pollsLeft>>

monitorVars == <<cfg, now, pc, tickCache, lastUpdate, snapshot, idx, nowTs,
                 messages, history>>

----------------------------------------------------------------------------
(* Bounds of the model *)

StartTime == 10        \* time.time() at start, far above any interval
MaxPolls == 2          \* cycles of the main loop after the first one
MaxKeep == 3           \* --sl-log-keep used in the model
MaxFaults == 1         \* failed exchange calls in one run
MaxTraderRuns == 1     \* _update_tp_sl calls of the trader in one run
MaxCandidates == 3     \* stop orders in one list given to the reconciler
MaxRateLimits == 3     \* -1003 answers of the exchange in one run
MaxAppends == 3        \* _append_sl_history calls made on its own

(* Program constants *)

DefaultTick == 2       \* Decimal("0.01")
StepPct == 5           \* --sl-step-pct 0.05
TrailPct == 50         \* --sl-trail-pct 0.5
ActivatePct == 50      \* --sl-activate-profit-pct 0.5
BufferTicks == 2       \* --sl-buffer-ticks 2
MinIntervalSec == 2    \* --sl-min-interval
Interval == 1          \* --interval 1.0
MaxLossPct == 50       \* maximum loss percent 0.5
PctDen == 100 * 100    \* x% of p, x counted in 0.01%, is p * x / PctDen
BackoffBase == 3       \* first backoff delay, seconds
BackoffCap == 30       \* largest backoff delay, seconds
NoticeCooldown == 5    \* seconds between two rate-limit warnings

SL_ORDER_TYPES == {"STOP", "STOP_MARKET"}

Symbols == {"BTCUSDT", "ETHUSDT"}
Sides == {"LONG", "SHORT"}
Keys == Symbols \X Sides

(* tickSize of the PRICE_FILTER the exchange reports for a symbol *)
ExchangeTick(symbol) == IF symbol = "BTCUSDT" THEN 2 ELSE 5

Max(a, b) == IF a >= b THEN a ELSE b
Min(a, b) == IF a <= b THEN a ELSE b
Abs(a) == IF a >= 0 THEN a ELSE -a
SetMax(S) == CHOOSE x \in S : \A y \in S : y <= x
SetMin(S) == CHOOSE x \in S : \A y \in S : x <= y

----------------------------------------------------------------------------
(* Price normalizer.  The argument x is a price times PctDen. *)

(* mutant: the price is truncated to a unit, not floored to the tick *)
NormalizePriceFloorNoTick(tick, x) == x \div PctDen

(* mutant: the floor is the multiple of the tick strictly below the price *)
NormalizePriceFloorStrict(tick, x) ==
    ((x - 1) \div (tick * PctDen)) * tick

NormalizePriceFloor(tick, x) ==
    IF tick <= 0 THEN x \div PctDen
    ELSE (x \div (tick * PctDen)) * tick

(* mutant: the ceiling rounds down like the floor *)
NormalizePriceCeilDown(tick, x) ==
    (x \div (tick * PctDen)) * tick

NormalizePriceCeil(tick, x) ==
    IF tick <= 0 THEN x \div PctDen
    ELSE (-((-x) \div (tick * PctDen))) * tick

(* price is a whole number of units here (the float the engine computed) *)
FormatStopPrice(tick, position_side, price) ==
    IF position_side = "LONG"
    THEN (price \div tick) * tick
    ELSE (-((-price) \div tick)) * tick

----------------------------------------------------------------------------
(* Position snapshot *)

Notional(p) == p.qty * p.mark

RECURSIVE InsertDesc(_, _)
InsertDesc(s, p) ==
    IF s = <<>> THEN <<p>>
    ELSE IF Notional(p) > Notional(Head(s)) THEN <<p>> \o s
    ELSE <<Head(s)>> \o InsertDesc(Tail(s), p)

RECURSIVE SortDesc(_)
SortDesc(s) ==
    IF s = <<>> THEN <<>>
    ELSE InsertDesc(SortDesc(SubSeq(s, 1, Len(s) - 1)), s[Len(s)])

(* Exchange account: the raw positions, with the code's field names *)
Positions ==
    <<[symbol |-> "BTCUSDT", positionSide |-> "LONG", positionAmt |-> 1,
       entryPrice |-> 20000],
      [symbol |-> "ETHUSDT", positionSide |-> "SHORT", positionAmt |-> -1,
       entryPrice |-> 20000]>>

(* Mark prices the exchange may report in one cycle, per symbol: both
   positions in loss, both at the entry price, both at the edge of the
   safety buffer, both in profit past the activation threshold (twice) *)
MarkPrices ==
    {("BTCUSDT" :> 19880) @@ ("ETHUSDT" :> 20120),
     ("BTCUSDT" :> 20000) @@ ("ETHUSDT" :> 20000),
     ("BTCUSDT" :> 20004) @@ ("ETHUSDT" :> 19996),
     ("BTCUSDT" :> 20110) @@ ("ETHUSDT" :> 19890),
     ("BTCUSDT" :> 20200) @@ ("ETHUSDT" :> 19800)}

GetPositionSide(p) ==
    IF p.positionSide \in {"LONG", "SHORT", "BOTH"} THEN p.positionSide
    ELSE IF p.positionAmt > 0 THEN "LONG" ELSE "SHORT"

(* One entry of the snapshot's positions list, from the raw position p and
   the mark price the exchange reports for it *)
BuildPosition(p, mark) ==
    [symbol |-> p.symbol,
     position_side |-> GetPositionSide(p),
     qty |-> Abs(p.positionAmt),
     entry |-> p.entryPrice,
     mark |-> IF mark <= 0 THEN p.entryPrice ELSE mark]

IsOpen(p) == p.positionAmt # 0 /\ p.symbol # ""

(* _fetch_positions_snapshot: zero quantities dropped, sorted by notional,
   largest first; marks gives the reported mark price of each symbol *)
FetchPositionsSnapshot(marks) ==
    LET raw == SelectSeq(account, IsOpen)
    IN SortDesc([i \in 1..Len(raw) |->
                    BuildPosition(raw[i], marks[raw[i].symbol])])

----------------------------------------------------------------------------
(* Stop-order reconciler *)

FetchOpenOrdersBySymbol(symbol, ok) ==
    IF ok THEN {o \in orders : o.source = "base_order" /\ o.symbol = symbol}
    ELSE {}

FetchOpenAlgoOrdersBySymbol(symbol, ok) ==
    IF ok THEN {o \in orders : o.source = "algo_order" /\ o.symbol = symbol}
    ELSE {}

IsReduceOnlyOrClosePosition(o) == o.reduceOnly \/ o.closePosition

CollectStopOrders(open_orders, algo_orders, symbol, position_side) ==
    {o \in open_orders :
        /\ o.symbol = symbol
        /\ o.positionSide = position_side
        /\ o.type \in SL_ORDER_TYPES
        /\ IsReduceOnlyOrClosePosition(o)
        /\ o.stopPrice > 0}
    \cup
    {o \in algo_orders :
        /\ o.symbol = symbol
        /\ o.positionSide = position_side
        /\ o.type \in SL_ORDER_TYPES
        /\ o.stopPrice > 0}

RECURSIVE ListMax(_)
(* max(prices) of a non-empty list, taken from left to right *)
ListMax(prices) ==
    IF Len(prices) = 1 THEN prices[1]
    ELSE Max(ListMax(SubSeq(prices, 1, Len(prices) - 1)), prices[Len(prices)])

RECURSIVE ListMin(_)
ListMin(prices) ==
    IF Len(prices) = 1 THEN prices[1]
    ELSE Min(ListMin(SubSeq(prices, 1, Len(prices) - 1)), prices[Len(prices)])

IsPositivePrice(o) == o.stopPrice > 0

(* mutant: the first candidate is taken as the effective stop *)
PickFirstSlPrice(position_side, stop_list) ==
    LET kept == SelectSeq(stop_list, IsPositivePrice)
    IN IF kept = <<>> THEN 0 ELSE kept[1].stopPrice

(* _pick_current_sl_price over the list _collect_stop_orders returns; 0 is
   None *)
PickCurrentSlPrice(position_side, stop_list) ==
    LET kept == SelectSeq(stop_list, IsPositivePrice)
        prices == [i \in 1..Len(kept) |-> kept[i].stopPrice]
    IN IF prices = <<>> THEN 0
       ELSE IF position_side = "LONG" THEN ListMax(prices)
       ELSE IF position_side = "SHORT" THEN ListMin(prices)
       ELSE 0

----------------------------------------------------------------------------
(* Price filter cache *)

TickResults == {"ok", "nofilter", "error"}

(* mutant: the cache is not consulted, the exchange answers every call *)
GetTickSizeUncached(symbol, res) ==
    IF res = "ok" THEN ExchangeTick(symbol)
    ELSE IF res = "nofilter" THEN DefaultTick
    ELSE -1

(* _get_tick_size: the cached tick, else the exchange's answer res: its
   PRICE_FILTER tick, the default when the symbol has no such filter, and
   -1 when futures_exchange_info raises *)
GetTickSize(symbol, res) ==
    IF tickCache[symbol] # 0 THEN tickCache[symbol]
    ELSE IF res = "ok" THEN ExchangeTick(symbol)
    ELSE IF res = "nofilter" THEN DefaultTick
    ELSE -1

(* the answer of futures_exchange_info a _get_tick_size call gets, "none"
   when the cache answers and the exchange is not asked *)
Lookup(symbol, res) == IF tickCache[symbol] # 0 THEN "none" ELSE res

----------------------------------------------------------------------------
(* Stop-loss progression engine: the decisions of one loop iteration *)

Key(p) == <<p.symbol, p.position_side>>

(* mutant: the symbols filter is ignored *)
FilteredNever(symbol) == FALSE

Filtered(symbol) ==
    cfg.symbols_filter # {} /\ symbol \notin cfg.symbols_filter

BufferPrice(tick) == Max(tick * Max(0, cfg.buffer_ticks), 0)

(* mutant: the guard only looks at the mark price against the entry price *)
NotAtBreakevenNoBuffer(position_side, liangping, mark, buffer_price) ==
    \/ position_side = "LONG" /\ liangping > mark
    \/ position_side = "SHORT" /\ liangping < mark

NotAtBreakeven(position_side, liangping, mark, buffer_price) ==
    \/ position_side = "LONG" /\ liangping > mark - buffer_price
    \/ position_side = "SHORT" /\ liangping < mark + buffer_price

(* mutant: a key that was updated once stays throttled *)
ThrottledOnceUpdated(now_ts, last_ts) == last_ts > 0

(* mutant: no key is ever throttled *)
ThrottledNever(now_ts, last_ts) == FALSE

Throttled(now_ts, last_ts) == now_ts - last_ts < cfg.min_interval_sec

IsLockProfit == cfg.mode \in {"lock_profit", "lock-profit"}

(* mutant: no position is below activation *)
BelowActivationNever(position_side, entry, mark) == FALSE

(* profit_pct < activate_profit_pct, both sides multiplied by entry * 100 *)
BelowActivation(position_side, entry, mark) ==
    LET gain == IF position_side = "LONG" THEN mark - entry ELSE entry - mark
    IN gain * PctDen < cfg.activate_profit_pct * entry

(* mutant: the target is not held at the existing stop *)
LockProfitTargetLoose(position_side, liangping, mark, buffer_price, current_sl, tick) ==
    IF position_side = "LONG"
    THEN LET trail_candidate == mark * (PctDen - cfg.trail_pct)
             t1 == Max(liangping * PctDen, trail_candidate)
             t2 == Min(t1, (mark - buffer_price) * PctDen)
         IN NormalizePriceFloor(tick, t2)
    ELSE LET trail_candidate == mark * (PctDen + cfg.trail_pct)
             t1 == Min(liangping * PctDen, trail_candidate)
             t2 == Max(t1, (mark + buffer_price) * PctDen)
         IN NormalizePriceCeil(tick, t2)

(* lock_profit target, normalized to the tick *)
LockProfitTarget(position_side, liangping, mark, buffer_price, current_sl, tick) ==
    IF position_side = "LONG"
    THEN LET trail_candidate == mark * (PctDen - cfg.trail_pct)
             t1 == Max(liangping * PctDen, trail_candidate)
             t2 == Min(t1, (mark - buffer_price) * PctDen)
             t3 == IF current_sl > 0 THEN Max(t2, current_sl * PctDen) ELSE t2
         IN NormalizePriceFloor(tick, t3)
    ELSE LET trail_candidate == mark * (PctDen + cfg.trail_pct)
             t1 == Min(liangping * PctDen, trail_candidate)
             t2 == Max(t1, (mark + buffer_price) * PctDen)
             t3 == IF current_sl > 0 THEN Min(t2, current_sl * PctDen) ELSE t2
         IN NormalizePriceCeil(tick, t3)

(* mutant: the stop is not stepped *)
StepAmountNone(liangping, tick) == 0

(* step_amount times PctDen *)
StepAmount(liangping, tick) ==
    Max(Max(Abs(liangping) * cfg.step_pct, tick * PctDen), 0)

(* mutant: a stop at or past the entry price is not recognized *)
AtBreakevenNever(position_side, current_sl, liangping) == FALSE

(* stepwise mode: the existing stop is already at or past the entry price *)
AtBreakeven(position_side, current_sl, liangping) ==
    /\ current_sl > 0
    /\ \/ position_side = "LONG" /\ current_sl >= liangping
       \/ position_side = "SHORT" /\ current_sl <= liangping

(* mutant: the first stop is placed one step past the entry price *)
StepwiseTargetPastEntry(position_side, liangping, mark, buffer_price, current_sl, tick) ==
    LET stepped ==
            IF current_sl <= 0
            THEN IF position_side = "LONG"
                 THEN liangping * PctDen + StepAmount(liangping, tick)
                 ELSE liangping * PctDen - StepAmount(liangping, tick)
            ELSE IF position_side = "LONG"
                 THEN Min(current_sl * PctDen + StepAmount(liangping, tick),
                          liangping * PctDen)
                 ELSE Max(current_sl * PctDen - StepAmount(liangping, tick),
                          liangping * PctDen)
    IN IF position_side = "LONG"
       THEN NormalizePriceFloor(tick, Min(stepped, (mark - buffer_price) * PctDen))
       ELSE NormalizePriceCeil(tick, Max(stepped, (mark + buffer_price) * PctDen))

(* mutant: the target is the edge of the safety buffer, not capped at the
   entry price *)
StepwiseTargetAtBuffer(position_side, liangping, mark, buffer_price, current_sl, tick) ==
    IF position_side = "LONG"
    THEN NormalizePriceFloor(tick, (mark - buffer_price) * PctDen)
    ELSE NormalizePriceCeil(tick, (mark + buffer_price) * PctDen)

(* stepwise target, normalized to the tick *)
StepwiseTarget(position_side, liangping, mark, buffer_price, current_sl, tick) ==
    LET stepped ==
            IF current_sl <= 0 THEN liangping * PctDen
            ELSE IF position_side = "LONG"
                 THEN Min(current_sl * PctDen + StepAmount(liangping, tick),
                          liangping * PctDen)
                 ELSE Max(current_sl * PctDen - StepAmount(liangping, tick),
                          liangping * PctDen)
    IN IF position_side = "LONG"
       THEN NormalizePriceFloor(tick, Min(stepped, (mark - buffer_price) * PctDen))
       ELSE NormalizePriceCeil(tick, Max(stepped, (mark + buffer_price) * PctDen))

(* mutant: a stop at its target is placed again *)
NoChangeNever(current_sl, new_sl, tick) == FALSE

NoChange(current_sl, new_sl, tick) ==
    current_sl > 0 /\ Abs(new_sl - current_sl) < tick

----------------------------------------------------------------------------
(* Write path *)

RECURSIVE OrderById(_)
OrderById(S) ==
    IF S = {} THEN <<>>
    ELSE LET x == CHOOSE o \in S : \A q \in S : o.id <= q.id
         IN <<x>> \o OrderById(S \ {x})

(* stop_orders as the list _collect_stop_orders builds: base orders first *)
StopList(stop_orders) ==
    OrderById({o \in stop_orders : o.source = "base_order"})
    \o OrderById({o \in stop_orders : o.source = "algo_order"})

Call(op, symbol, position_side, id, price, ok) ==
    [op |-> op, symbol |-> symbol, position_side |-> position_side,
     id |-> id, price |-> price, qty |-> 0, ok |-> ok]

(* _cancel_existing_sl_orders: one cancel call per listed stop order; the
   cancels of the ids in fail are rejected by the exchange and swallowed *)
CancelCalls(symbol, position_side, stop_list, fail) ==
    [i \in 1..Len(stop_list) |->
        Call("cancel", symbol, position_side, stop_list[i].id,
             stop_list[i].stopPrice, stop_list[i].id \notin fail)]

(* mutant: every open order of the symbol is cancelled *)
AfterCancelAllOpenOrders(os, stop_orders, fail) ==
    {o \in os : \A q \in stop_orders : o.symbol # q.symbol}

AfterCancel(os, stop_orders, fail) ==
    os \ {o \in stop_orders : o.id \notin fail}

FreshId(os) ==
    CHOOSE i \in 1..(Cardinality(os) + 1) :
        /\ \A o \in os : o.id # i
        /\ \A j \in 1..(i - 1) : \E o \in os : o.id = j

(* mutant: the stop is placed on the side that opens the position *)
ClosingSideOpening(position_side) ==
    IF position_side = "LONG" THEN "BUY" ELSE "SELL"

(* side of the order that closes a position of this position side *)
ClosingSide(position_side) ==
    IF position_side = "LONG" THEN "SELL"
    ELSE IF position_side = "SHORT" THEN "BUY"
    ELSE ""

(* the order futures_create_order rests on the exchange when it accepts the
   STOP_MARKET close-position request *)
StopMarketOrder(os, symbol, position_side, price, source) ==
    [id |-> FreshId(os), symbol |-> symbol, positionSide |-> position_side,
     type |-> "STOP_MARKET", stopPrice |-> price, source |-> source,
     reduceOnly |-> FALSE, closePosition |-> TRUE,
     side |-> ClosingSide(position_side)]

Message(kind, symbol, position_side, current_sl, new_sl, canceled) ==
    [kind |-> kind, symbol |-> symbol, position_side |-> position_side,
     current_sl |-> current_sl, new_sl |-> new_sl, canceled |-> canceled]

NoEval ==
    [symbol |-> "", position_side |-> "", outcome |-> "none", entry |-> 0,
     mark |-> 0, tick |-> 0, buffer_price |-> 0, throttled |-> FALSE,
     listed |-> FALSE, base_ok |-> TRUE, algo_ok |-> TRUE,
     current_sl |-> 0, new_sl |-> 0, new_tp |-> 0, stops |-> {},
     lookup |-> "none"]

(* mutant: the timestamp is not recorded *)
MarkUpdatedForgotten(key) == lastUpdate

(* _last_sl_update_at[key] = now_ts *)
MarkUpdated(key) == [lastUpdate EXCEPT ![key] = nowTs]

(* the live branch: cancel the listed stops, then place the new one *)
Replace(p, ev, tc, stop_orders, fail, placeOk, placeSrc) ==
    LET symbol == p.symbol
        side == p.position_side
        cancels == CancelCalls(symbol, side, StopList(stop_orders), fail)
        canceled == Cardinality({o \in stop_orders : o.id \notin fail})
        rest == AfterCancel(orders, stop_orders, fail)
        price == FormatStopPrice(tc[symbol], side, ev.new_sl)
        created == StopMarketOrder(rest, symbol, side, price, placeSrc)
        place == Call("place", symbol, side,
                      IF placeOk THEN created.id ELSE 0, price, placeOk)
    IN [outcome |-> IF placeOk THEN "updated" ELSE "failed",
        tickCache |-> tc,
        msgs |-> IF placeOk
                 THEN <<Message("updated", symbol, side, ev.current_sl,
                                ev.new_sl, canceled)>>
                 ELSE <<Message("failed", symbol, side, 0, 0, 0)>>,
        lastUpdate |-> MarkUpdated(Key(p)),
        orders |-> IF placeOk
                   THEN rest \cup {created}
                   ELSE rest,
        calls |-> cancels \o <<place>>]

(* One iteration of the for loop of _auto_step_sl_to_breakeven over position
   p.  The exchange's answers are parameters: tickRes to the filter lookup,
   baseOk and algoOk to the two listings, fail the rejected cancels, placeOk
   and placeSrc the place call and the listing the new order shows up in. *)
ProcessPosition(p, tickRes, baseOk, algoOk, fail, placeOk, placeSrc) ==
    LET symbol == p.symbol
        side == p.position_side
        entry == p.entry
        mark == p.mark
        ev0 == [NoEval EXCEPT !.symbol = symbol, !.position_side = side,
                              !.entry = entry, !.mark = mark]
        Skip(o, ev, msgs, tc) ==
            [outcome |-> o, tickCache |-> tc, msgs |-> msgs,
             lastUpdate |-> lastUpdate, orders |-> orders, calls |-> <<>>,
             last |-> [ev EXCEPT !.outcome = o]]
    IN
    IF Filtered(symbol) THEN Skip("filtered", ev0, <<>>, tickCache)
    ELSE IF entry <= 0 \/ mark <= 0 THEN Skip("no_price", ev0, <<>>, tickCache)
    ELSE
    LET tick == GetTickSize(symbol, tickRes) IN
    IF tick < 0
    THEN Skip("raised", [ev0 EXCEPT !.lookup = Lookup(symbol, tickRes)], <<>>,
              tickCache)
    ELSE
    LET tc == [tickCache EXCEPT ![symbol] = tick]
        buffer_price == BufferPrice(tick)
        ev1 == [ev0 EXCEPT !.tick = tick, !.buffer_price = buffer_price,
                           !.lookup = Lookup(symbol, tickRes)]
    IN
    IF side \notin {"LONG", "SHORT"} THEN Skip("other_side", ev1, <<>>, tc)
    ELSE IF NotAtBreakeven(side, entry, mark, buffer_price)
    THEN Skip("not_breakeven", ev1,
              IF cfg.verbose
              THEN <<Message("skip_breakeven", symbol, side, 0, 0, 0)>>
              ELSE <<>>, tc)
    ELSE IF Throttled(nowTs, lastUpdate[Key(p)])
    THEN Skip("throttled", [ev1 EXCEPT !.throttled = TRUE], <<>>, tc)
    ELSE
    LET open_orders == FetchOpenOrdersBySymbol(symbol, baseOk)
        algo_orders == FetchOpenAlgoOrdersBySymbol(symbol, algoOk)
        stop_orders == CollectStopOrders(open_orders, algo_orders, symbol, side)
        current_sl == PickCurrentSlPrice(side, StopList(stop_orders))
        ev2 == [ev1 EXCEPT !.listed = TRUE, !.base_ok = baseOk,
                           !.algo_ok = algoOk, !.current_sl = current_sl,
                           !.stops = {o.id : o \in stop_orders}]
        Decide(new_sl) ==
            LET ev3 == [ev2 EXCEPT !.new_sl = new_sl] IN
            IF NoChange(current_sl, new_sl, tick)
            THEN Skip("no_change", ev3, <<>>, tc)
            ELSE IF cfg.dry_run
            THEN [outcome |-> "simulated", tickCache |-> tc,
                  msgs |-> <<Message("simulated", symbol, side, current_sl,
                                     new_sl, 0)>>,
                  lastUpdate |-> MarkUpdated(Key(p)),
                  orders |-> orders, calls |-> <<>>,
                  last |-> [ev3 EXCEPT !.outcome = "simulated"]]
            ELSE LET r == Replace(p, ev3, tc, stop_orders, fail, placeOk, placeSrc)
                 IN [outcome |-> r.outcome, tickCache |-> r.tickCache,
                     msgs |-> r.msgs, lastUpdate |-> r.lastUpdate,
                     orders |-> r.orders, calls |-> r.calls,
                     last |-> [ev3 EXCEPT !.outcome = r.outcome]]
    IN
    IF IsLockProfit
    THEN IF BelowActivation(side, entry, mark)
         THEN Skip("below_activation", ev2,
                   IF cfg.verbose
                   THEN <<Message("skip_activation", symbol, side, 0, 0, 0)>>
                   ELSE <<>>, tc)
         ELSE Decide(LockProfitTarget(side, entry, mark, buffer_price,
                                      current_sl, tick))
    ELSE IF AtBreakeven(side, current_sl, entry)
         THEN Skip("at_breakeven", ev2, <<>>, tc)
         ELSE Decide(StepwiseTarget(side, entry, mark, buffer_price,
                                    current_sl, tick))

----------------------------------------------------------------------------
(* Action history *)

(* mutant: the oldest records are kept, the newest dropped *)
AppendSlHistoryKeepOldest(h, lines, max_keep) ==
    LET all == h \o [i \in 1..Len(lines) |-> [ts |-> now, line |-> lines[i]]]
    IN SubSeq(all, 1, Min(Len(all), max_keep))

(* _append_sl_history: every line stamped with the current time, the oldest
   records beyond max_keep dropped *)
AppendSlHistory(h, lines, max_keep) ==
    IF lines = <<>> THEN h
    ELSE LET all == h \o [i \in 1..Len(lines) |-> [ts |-> now, line |-> lines[i]]]
         IN IF Len(all) > max_keep
            THEN SubSeq(all, Len(all) - max_keep + 1, Len(all))
            ELSE all

(* the log_file part of _append_sl_history: the stamped lines are appended
   to the file when it can be written (ok); a failure is swallowed *)
WriteLogFile(log, lines, log_file, ok) ==
    [log |-> IF lines # <<>> /\ log_file # "" /\ ok
             THEN log \o [i \in 1..Len(lines) |-> [ts |-> now, line |-> lines[i]]]
             ELSE log,
     raised |-> FALSE]

(* mutant: the file is written first and its failure is not caught *)
AppendAndLogUnguarded(h, lines, max_keep, log, log_file, ok) ==
    LET fails == lines # <<>> /\ log_file # "" /\ ~ok
    IN [history |-> IF fails THEN h ELSE AppendSlHistory(h, lines, max_keep),
        log |-> WriteLogFile(log, lines, log_file, ok).log,
        raised |-> fails]

(* _append_sl_history as a whole: the in-memory history first, then the
   file; raised tells whether an exception leaves the function *)
AppendAndLog(h, lines, max_keep, log, log_file, ok) ==
    LET w == WriteLogFile(log, lines, log_file, ok)
    IN [history |-> AppendSlHistory(h, lines, max_keep),
        log |-> w.log,
        raised |-> w.raised]

----------------------------------------------------------------------------
(* Exception handlers of the main loop *)

(* mutant: an exception ends the loop *)
CaughtExits(kind) ==
    [pc |-> "exited", backoff |-> rateLimitBackoffSec,
     notice |-> lastRateLimitNoticeTs, slept |-> 0]

(* mutant: the rate-limit delay doubles without a cap *)
CaughtUncapped(kind) ==
    IF kind = "rate_limit"
    THEN LET delay == IF rateLimitBackoffSec <= 0 THEN BackoffBase
                      ELSE rateLimitBackoffSec * 2
         IN [pc |-> "sleep", backoff |-> delay,
             notice |-> IF now - lastRateLimitNoticeTs > NoticeCooldown
                        THEN now ELSE lastRateLimitNoticeTs,
             slept |-> delay]
    ELSE [pc |-> "sleep", backoff |-> rateLimitBackoffSec,
          notice |-> lastRateLimitNoticeTs, slept |-> 0]

(* the except clauses: a rate limit (BinanceAPIException -1003) warns when
   the last warning is older than the cooldown, sets the backoff delay and
   sleeps it; any other exception is printed; then the loop goes on to its
   bottom *)
Caught(kind) ==
    IF kind = "rate_limit"
    THEN LET delay == IF rateLimitBackoffSec <= 0 THEN BackoffBase
                      ELSE Min(BackoffCap, rateLimitBackoffSec * 2)
         IN [pc |-> "sleep", backoff |-> delay,
             notice |-> IF now - lastRateLimitNoticeTs > NoticeCooldown
                        THEN now ELSE lastRateLimitNoticeTs,
             slept |-> delay]
    ELSE [pc |-> "sleep", backoff |-> rateLimitBackoffSec,
          notice |-> lastRateLimitNoticeTs, slept |-> 0]

----------------------------------------------------------------------------
(* Initial states *)

Order(id, symbol, positionSide, type, stopPrice, source, closePosition) ==
    [id |-> id, symbol |-> symbol, positionSide |-> positionSide,
     type |-> type, stopPrice |-> stopPrice, source |-> source,
     reduceOnly |-> FALSE, closePosition |-> closePosition,
     side |-> IF positionSide = "LONG" THEN "SELL" ELSE "BUY"]

(* Protective orders resting on the exchange when the monitor starts *)
InitialOrders ==
    {{},
     {Order(1, "BTCUSDT", "LONG", "STOP_MARKET", 19990, "base_order", TRUE)},
     {Order(1, "BTCUSDT", "LONG", "STOP_MARKET", 19990, "base_order", TRUE),
      Order(2, "BTCUSDT", "LONG", "STOP", 19980, "algo_order", FALSE),
      Order(3, "ETHUSDT", "SHORT", "STOP_MARKET", 20015, "base_order", TRUE)},
     {Order(1, "BTCUSDT", "LONG", "STOP_MARKET", 20050, "algo_order", TRUE),
      Order(2, "BTCUSDT", "LONG", "TAKE_PROFIT_MARKET", 20400, "base_order", TRUE),
      Order(3, "ETHUSDT", "SHORT", "STOP_MARKET", 19895, "base_order", TRUE)}}

(* nothing has been rate-limited, logged to a file or normalized yet *)
LoopIdle ==
    /\ rateLimitBackoffSec = 0
    /\ lastRateLimitNoticeTs = 0
    /\ backoffSlept = 0
    /\ caught = ""
    /\ logFile = <<>>

NoPriceArg == [tick |-> 0, x |-> 0, position_side |-> ""]

NormalizeIdle ==
    /\ markPriceFeed = [s \in Symbols |-> 0]
    /\ priceArg = NoPriceArg
    /\ normalized = <<>>

NoSignal == [action |-> "", allowed |-> FALSE]

SchedulerIdle ==
    /\ signal = NoSignal
    /\ handed = ""

NoPending == [active |-> FALSE, symbol |-> "", position_side |-> "",
              sl |-> 0, tp |-> 0]

TraderIdle == pending = NoPending

(* Option values of the runs explored *)
Options(modes, dry, verbose, buffers, filters) ==
    [mode : modes,
     dry_run : dry,
     verbose : verbose,
     buffer_ticks : buffers,
     min_interval_sec : {MinIntervalSec},
     step_pct : {StepPct},
     trail_pct : {TrailPct},
     activate_profit_pct : {ActivatePct},
     max_loss_pct : {MaxLossPct},
     max_keep : {MaxKeep},
     symbols_filter : filters,
     once : {FALSE},
     log_file : {""}]

Configs ==
    Options({"lock_profit", "breakeven"}, BOOLEAN, BOOLEAN, {0, BufferTicks}, {{}})
    \cup Options({"lock_profit", "breakeven"}, {FALSE}, {FALSE}, {BufferTicks},
                 {{"BTCUSDT"}})

Init ==
    /\ cfg \in Configs
    /\ now = StartTime
    /\ pc = "fetch"
    /\ account = Positions
    /\ orders \in InitialOrders
    /\ tickCache = [s \in Symbols |-> 0]
    /\ lastUpdate = [k \in Keys |-> 0]
    /\ snapshot = <<>>
    /\ idx = 0
    /\ nowTs = 0
    /\ messages = <<>>
    /\ history = <<>>
    /\ calls = <<>>
    /\ last = NoEval
    /\ faults = 0
    /\ symbolInfoCache = [s \in Symbols |-> 0]
    /\ traderRuns = 0
    /\ candidates = [position_side |-> "", stop_orders |-> <<>>]
    /\ picked = -1
    /\ LoopIdle
    /\ rateLimitsLeft = 0
    /\ pollsLeft = MaxPolls
    /\ NormalizeIdle
    /\ SchedulerIdle
    /\ TraderIdle

----------------------------------------------------------------------------
(* The monitor's main loop *)

(* _fetch_positions_snapshot at the top of a cycle, then the engine call
   begins (now_ts read, messages empty); a failed account query raises into
   the loop's handler and the cycle ends *)
FetchSnapshot ==
    /\ pc = "fetch"
    /\ \E ok \in BOOLEAN, rl \in BOOLEAN, marks \in MarkPrices :
        /\ ok => ~rl
        /\ rl => rateLimitsLeft > 0
        /\ ~ok /\ ~rl => faults < MaxFaults
        /\ faults' = IF ok \/ rl THEN faults ELSE faults + 1
        /\ rateLimitsLeft' = IF rl THEN rateLimitsLeft - 1 ELSE rateLimitsLeft
        /\ IF ok
           THEN /\ snapshot' = FetchPositionsSnapshot(marks)
                /\ pc' = "engine"
                /\ idx' = 1
                /\ rateLimitBackoffSec' = 0
                /\ caught' = ""
                /\ UNCHANGED <<now, lastRateLimitNoticeTs, backoffSlept>>
           ELSE \E h \in {Caught(IF rl THEN "rate_limit" ELSE "error")} :
                /\ snapshot' = <<>>
                /\ pc' = h.pc
                /\ idx' = 0
                /\ rateLimitBackoffSec' = h.backoff
                /\ lastRateLimitNoticeTs' = h.notice
                /\ backoffSlept' = h.slept
                /\ caught' = IF rl THEN "rate_limit" ELSE "error"
                /\ now' = now + h.slept
    /\ nowTs' = now
    /\ messages' = <<>>
    /\ calls' = <<>>
    /\ last' = NoEval
    /\ UNCHANGED <<cfg, account, orders, tickCache, lastUpdate, history,
                   symbolInfoCache, traderRuns, pickVars, pollsLeft, logFile,
                   markPriceFeed, normVars, schedVars,
                   pending>>

Failed(tickRes, baseOk, algoOk, fail, placeOk) ==
    (IF tickRes = "error" THEN 1 ELSE 0) + (IF baseOk THEN 0 ELSE 1)
    + (IF algoOk THEN 0 ELSE 1) + Cardinality(fail) + (IF placeOk THEN 0 ELSE 1)

(* one iteration of the engine's loop; an exception of the filter lookup
   leaves the engine call and the cycle, the messages list is lost *)
EngineStep ==
    /\ pc = "engine"
    /\ idx <= Len(snapshot)
    /\ \E tickRes \in TickResults, baseOk \in BOOLEAN, algoOk \in BOOLEAN,
          placeOk \in BOOLEAN, rl \in BOOLEAN :
       \E fail \in SUBSET {o.id : o \in {q \in orders : q.symbol = snapshot[idx].symbol}} :
       \E r \in {ProcessPosition(snapshot[idx], tickRes, baseOk, algoOk,
                                 fail, placeOk, "base_order")} :
           \* answers to calls the iteration does not make are not enumerated
           /\ (tickCache[snapshot[idx].symbol] # 0 \/ r.outcome \in {"filtered", "no_price"})
                => tickRes = "ok"
           /\ ~r.last.listed => baseOk /\ algoOk
           /\ r.calls = <<>> => fail = {} /\ placeOk
           /\ fail \subseteq r.last.stops
           \* a rate-limited step: its one failed call answers -1003
           /\ rl => /\ rateLimitsLeft > 0
                     /\ Failed(tickRes, baseOk, algoOk, fail, placeOk) = 1
           /\ rateLimitsLeft' = IF rl THEN rateLimitsLeft - 1 ELSE rateLimitsLeft
           /\ faults' = IF rl THEN faults
                         ELSE faults + Failed(tickRes, baseOk, algoOk, fail, placeOk)
           /\ faults' <= MaxFaults
           /\ tickCache' = r.tickCache
           /\ lastUpdate' = r.lastUpdate
           /\ orders' = r.orders
           /\ calls' = r.calls
           /\ last' = r.last
           /\ IF r.outcome = "raised"
              THEN \E h \in {Caught(IF rl THEN "rate_limit" ELSE "error")} :
                   /\ messages' = <<>>
                   /\ pc' = h.pc
                   /\ snapshot' = <<>>
                   /\ idx' = 0
                   /\ rateLimitBackoffSec' = h.backoff
                   /\ lastRateLimitNoticeTs' = h.notice
                   /\ backoffSlept' = h.slept
                   /\ caught' = IF rl THEN "rate_limit" ELSE "error"
                   /\ now' = now + h.slept
              ELSE /\ messages' = messages \o r.msgs
                   /\ pc' = "engine"
                   /\ snapshot' = snapshot
                   /\ idx' = idx + 1
                   /\ UNCHANGED <<now, handlerVars>>
    /\ UNCHANGED <<cfg, account, nowTs, history, symbolInfoCache,
                   traderRuns, pickVars, pollsLeft, logFile, markPriceFeed,
                   normVars, schedVars,
                   pending>>

(* the engine returns its messages; main appends them to the history and,
   with --sl-log-file, to the file (sinkOk: the file can be written); the
   cycle has ended without an exception *)
EngineReturn ==
    /\ pc = "engine"
    /\ idx > Len(snapshot)
    /\ \E sinkOk \in BOOLEAN :
       \E w \in {AppendAndLog(history, messages, cfg.max_keep, logFile,
                               cfg.log_file, sinkOk)} :
           /\ (cfg.log_file = "" \/ messages = <<>>) => sinkOk
           /\ history' = w.history
           /\ logFile' = w.log
           /\ caught' = IF w.raised THEN "error" ELSE ""
    /\ backoffSlept' = 0
    /\ messages' = <<>>
    /\ snapshot' = <<>>
    /\ idx' = 0
    /\ calls' = <<>>
    /\ last' = NoEval
    /\ pc' = "sleep"
    /\ UNCHANGED <<cfg, now, account, orders, tickCache, lastUpdate, nowTs,
                   faults, symbolInfoCache, traderRuns, pickVars,
                   rateLimitBackoffSec, lastRateLimitNoticeTs, rateLimitsLeft,
                   pollsLeft, markPriceFeed, normVars, schedVars,
                   pending>>

(* the bottom of a cycle: with --once main returns, else
   time.sleep(interval) and the next cycle *)
Sleep ==
    /\ pc = "sleep"
    /\ IF cfg.once
       THEN /\ pc' = "exited"
            /\ UNCHANGED <<now, pollsLeft>>
       ELSE /\ pollsLeft > 0
            /\ pollsLeft' = pollsLeft - 1
            /\ now' = now + Interval
            /\ pc' = "fetch"
    /\ UNCHANGED <<cfg, account, orders, tickCache, lastUpdate, snapshot, idx,
                   nowTs, messages, history, calls, last, faults,
                   symbolInfoCache, traderRuns, pickVars, handlerVars,
                   rateLimitsLeft, logFile, markPriceFeed, normVars, schedVars,
                   pending>>

(* KeyboardInterrupt anywhere in the loop: main returns *)
Interrupt ==
    /\ pc \in {"fetch", "engine", "sleep"}
    /\ pc' = "interrupted"
    /\ UNCHANGED <<cfg, now, account, orders, tickCache, lastUpdate, snapshot,
                   idx, nowTs, messages, history, calls, last, faults,
                   symbolInfoCache, traderRuns, pickVars, loopVars, logFile,
                   markPriceFeed, normVars, schedVars,
                   pending>>

Next == FetchSnapshot \/ EngineStep \/ EngineReturn \/ Sleep

Spec == Init /\ [][Next]_vars

----------------------------------------------------------------------------
(* Fixed-max-loss policy.  The monitor variant that implements it is not
   among the sources; this part follows section 4.4 of the specification. *)

(* mutant: the breach is never detected *)
HardBreachNever(position_side, entry, mark) == FALSE

(* the current loss percent is above max_loss_percent *)
HardBreach(position_side, entry, mark) ==
    LET loss == IF position_side = "LONG" THEN entry - mark ELSE mark - entry
    IN loss * PctDen > cfg.max_loss_pct * entry

(* entry * (1 -/+ max_loss_percent / 100), rounded in the stop's direction *)
MaxLossTarget(position_side, entry, tick) ==
    IF position_side = "LONG"
    THEN NormalizePriceFloor(tick, entry * (PctDen - cfg.max_loss_pct))
    ELSE NormalizePriceCeil(tick, entry * (PctDen + cfg.max_loss_pct))

(* replace when there is no stop, when the existing stop is less protective
   than the target by more than a tick, or when the only stop is off the
   target by less than a tick *)
MaxLossNeedsReplace(position_side, current_sl, target, tick, n_stops) ==
    \/ current_sl <= 0
    \/ IF position_side = "LONG"
       THEN target - current_sl > tick
       ELSE current_sl - target > tick
    \/ n_stops = 1 /\ current_sl # target /\ Abs(current_sl - target) < tick

(* the reduce-only market order that closes the full quantity *)
CloseCall(symbol, position_side, qty, ok) ==
    [Call("close", symbol, position_side, 0, 0, ok) EXCEPT !.qty = qty]

(* the exchange fills the market close: the position is flat *)
Closed(acc, symbol, position_side) ==
    [i \in 1..Len(acc) |->
        IF acc[i].symbol = symbol /\ GetPositionSide(acc[i]) = position_side
        THEN [acc[i] EXCEPT !.positionAmt = 0]
        ELSE acc[i]]

(* One iteration of the engine's loop under the fixed-max-loss policy *)
ProcessPositionMaxLoss(p, tickRes, baseOk, algoOk, fail, placeOk, closeOk) ==
    LET symbol == p.symbol
        side == p.position_side
        entry == p.entry
        mark == p.mark
        ev0 == [NoEval EXCEPT !.symbol = symbol, !.position_side = side,
                              !.entry = entry, !.mark = mark]
        Skip(o, ev, tc) ==
            [outcome |-> o, tickCache |-> tc, msgs |-> <<>>,
             lastUpdate |-> lastUpdate, orders |-> orders, account |-> account,
             calls |-> <<>>, last |-> [ev EXCEPT !.outcome = o]]
    IN
    IF Filtered(symbol) THEN Skip("filtered", ev0, tickCache)
    ELSE IF entry <= 0 \/ mark <= 0 THEN Skip("no_price", ev0, tickCache)
    ELSE
    LET tick == GetTickSize(symbol, tickRes) IN
    IF tick < 0
    THEN Skip("raised", [ev0 EXCEPT !.lookup = Lookup(symbol, tickRes)],
              tickCache)
    ELSE
    LET tc == [tickCache EXCEPT ![symbol] = tick]
        ev1 == [ev0 EXCEPT !.tick = tick, !.buffer_price = BufferPrice(tick),
                           !.lookup = Lookup(symbol, tickRes)]
    IN
    IF side \notin {"LONG", "SHORT"} THEN Skip("other_side", ev1, tc)
    ELSE IF HardBreach(side, entry, mark)
    THEN [outcome |-> "closed", tickCache |-> tc,
          msgs |-> <<Message(IF closeOk THEN "closed" ELSE "failed",
                             symbol, side, 0, 0, 0)>>,
          lastUpdate |-> lastUpdate, orders |-> orders,
          account |-> IF closeOk THEN Closed(account, symbol, side) ELSE account,
          calls |-> <<CloseCall(symbol, side, p.qty, closeOk)>>,
          last |-> [ev1 EXCEPT !.outcome = "closed"]]
    ELSE IF Throttled(nowTs, lastUpdate[Key(p)])
    THEN Skip("throttled", [ev1 EXCEPT !.throttled = TRUE], tc)
    ELSE
    LET open_orders == FetchOpenOrdersBySymbol(symbol, baseOk)
        algo_orders == FetchOpenAlgoOrdersBySymbol(symbol, algoOk)
        stop_orders == CollectStopOrders(open_orders, algo_orders, symbol, side)
        current_sl == PickCurrentSlPrice(side, StopList(stop_orders))
        target == MaxLossTarget(side, entry, tick)
        ev2 == [ev1 EXCEPT !.listed = TRUE, !.base_ok = baseOk,
                           !.algo_ok = algoOk, !.current_sl = current_sl,
                           !.new_sl = target,
                           !.stops = {o.id : o \in stop_orders}]
    IN
    IF ~MaxLossNeedsReplace(side, current_sl, target, tick,
                            Cardinality(stop_orders))
    THEN Skip("no_change", ev2, tc)
    ELSE LET r == Replace(p, ev2, tc, stop_orders, fail, placeOk, "base_order")
         IN [outcome |-> r.outcome, tickCache |-> r.tickCache,
             msgs |-> r.msgs, lastUpdate |-> r.lastUpdate,
             orders |-> r.orders, account |-> account, calls |-> r.calls,
             last |-> [ev2 EXCEPT !.outcome = r.outcome]]

ConfigsMaxLoss ==
    Options({"max_loss"}, {FALSE}, BOOLEAN, {0, BufferTicks}, {{}})

InitMaxLoss ==
    /\ cfg \in ConfigsMaxLoss
    /\ now = StartTime
    /\ pc = "fetch"
    /\ account = Positions
    /\ orders \in InitialOrders
    /\ tickCache = [s \in Symbols |-> 0]
    /\ lastUpdate = [k \in Keys |-> 0]
    /\ snapshot = <<>>
    /\ idx = 0
    /\ nowTs = 0
    /\ messages = <<>>
    /\ history = <<>>
    /\ calls = <<>>
    /\ last = NoEval
    /\ faults = 0
    /\ symbolInfoCache = [s \in Symbols |-> 0]
    /\ traderRuns = 0
    /\ candidates = [position_side |-> "", stop_orders |-> <<>>]
    /\ picked = -1
    /\ LoopIdle
    /\ rateLimitsLeft = 0
    /\ pollsLeft = MaxPolls
    /\ NormalizeIdle
    /\ SchedulerIdle
    /\ TraderIdle

MaxLossStep ==
    /\ pc = "engine"
    /\ idx <= Len(snapshot)
    /\ \E tickRes \in TickResults, baseOk \in BOOLEAN, algoOk \in BOOLEAN,
          placeOk \in BOOLEAN, closeOk \in BOOLEAN :
       \E fail \in SUBSET {o.id : o \in {q \in orders : q.symbol = snapshot[idx].symbol}} :
       \E r \in {ProcessPositionMaxLoss(snapshot[idx], tickRes, baseOk, algoOk,
                                        fail, placeOk, closeOk)} :
           /\ (tickCache[snapshot[idx].symbol] # 0 \/ r.outcome \in {"filtered", "no_price"})
                => tickRes = "ok"
           /\ ~r.last.listed => baseOk /\ algoOk
           /\ r.outcome \notin {"updated", "failed"} => fail = {} /\ placeOk
           /\ r.outcome # "closed" => closeOk
           /\ fail \subseteq r.last.stops
           /\ faults' = faults + Failed(tickRes, baseOk, algoOk, fail, placeOk)
                               + (IF closeOk THEN 0 ELSE 1)
           /\ faults' <= MaxFaults
           /\ tickCache' = r.tickCache
           /\ lastUpdate' = r.lastUpdate
           /\ orders' = r.orders
           /\ account' = r.account
           /\ calls' = r.calls
           /\ last' = r.last
           /\ IF r.outcome = "raised"
              THEN /\ messages' = <<>>
                   /\ pc' = "sleep"
                   /\ snapshot' = <<>>
                   /\ idx' = 0
                   /\ caught' = "error"
              ELSE /\ messages' = messages \o r.msgs
                   /\ pc' = "engine"
                   /\ snapshot' = snapshot
                   /\ idx' = idx + 1
                   /\ caught' = caught
    /\ UNCHANGED <<cfg, now, nowTs, history, symbolInfoCache, traderRuns,
                   pickVars, rateLimitBackoffSec, lastRateLimitNoticeTs,
                   backoffSlept, rateLimitsLeft, pollsLeft, logFile,
                   markPriceFeed, normVars, schedVars,
                   pending>>

NextMaxLoss == FetchSnapshot \/ MaxLossStep \/ EngineReturn \/ Sleep

SpecMaxLoss == InitMaxLoss /\ [][NextMaxLoss]_vars

(* stop-loss orders of a key that rest on the exchange *)
RestingStops(k) ==
    {o \in orders : /\ o.symbol = k[1]
                    /\ o.positionSide = k[2]
                    /\ o.type \in SL_ORDER_TYPES}

----------------------------------------------------------------------------
(* trader.py: the stop-loss / take-profit update of the trade executor, a
   second program on the same exchange account *)

TP_SL_TYPES(kind) ==
    IF kind = "sl" THEN {"STOP", "STOP_MARKET"}
    ELSE {"TAKE_PROFIT", "TAKE_PROFIT_MARKET"}

(* prices the executor is asked to set, per position side; 0 is None *)
TraderStops(position_side) ==
    IF position_side = "LONG" THEN {0, 19951} ELSE {0, 20049}

TraderTakeProfits(position_side) ==
    IF position_side = "LONG" THEN {0, 20400} ELSE {0, 19600}

(* _get_symbol_filters and the PRICE_FILTER scan of _normalize_price: the
   tick the executor rounds with; res is the exchange's answer when the
   symbol is not cached, and -1 stands for futures_exchange_info raising *)
TraderTick(symbol, res) ==
    IF symbolInfoCache[symbol] # 0 THEN symbolInfoCache[symbol]
    ELSE IF res = "ok" THEN ExchangeTick(symbol)
    ELSE IF res = "nofilter" THEN DefaultTick
    ELSE -1

(* _normalize_price: floor to the tick, for either side *)
NormalizePrice(tick, price) == (price \div tick) * tick

(* mutant: both order classes are cancelled whatever is updated *)
CancelTpSlBoth(symbol, position_side, cancel_sl, cancel_tp, baseOk, algoOk) ==
    {o \in FetchOpenOrdersBySymbol(symbol, baseOk) \cup
            FetchOpenAlgoOrdersBySymbol(symbol, algoOk) :
        /\ o.type \in TP_SL_TYPES("sl") \cup TP_SL_TYPES("tp")
        /\ o.positionSide = position_side}

(* _cancel_tp_sl: the orders it sends a cancel for *)
CancelTpSlTargets(symbol, position_side, cancel_sl, cancel_tp, baseOk, algoOk) ==
    LET types == (IF cancel_sl THEN TP_SL_TYPES("sl") ELSE {})
                 \cup (IF cancel_tp THEN TP_SL_TYPES("tp") ELSE {})
    IN {o \in FetchOpenOrdersBySymbol(symbol, baseOk) \cup
              FetchOpenAlgoOrdersBySymbol(symbol, algoOk) :
           o.type \in types /\ o.positionSide = position_side}

TraderOrder(os, symbol, position_side, type, price) ==
    [id |-> FreshId(os), symbol |-> symbol, positionSide |-> position_side,
     type |-> type, stopPrice |-> price, source |-> "base_order",
     reduceOnly |-> FALSE, closePosition |-> TRUE,
     side |-> IF position_side = "LONG" THEN "SELL" ELSE "BUY"]

(* _update_tp_sl(symbol, position_side, sl, tp): cancel, sleep one second,
   place.  fail are the rejected cancels, slOk and tpOk the place calls. *)
UpdateTpSl ==
    /\ traderRuns < MaxTraderRuns
    /\ traderRuns' = traderRuns + 1
    /\ \E n \in 1..Len(account) :
       \E sl \in TraderStops(account[n].positionSide),
          tp \in TraderTakeProfits(account[n].positionSide),
          res \in TickResults, baseOk \in BOOLEAN, algoOk \in BOOLEAN,
          slOk \in BOOLEAN, tpOk \in BOOLEAN :
       LET symbol == account[n].symbol
           side == account[n].positionSide
           targets == CancelTpSlTargets(symbol, side, sl # 0, tp # 0,
                                        baseOk, algoOk)
       IN
       \E fail \in SUBSET {o.id : o \in targets} :
       LET cancels == CancelCalls(symbol, side, StopList(targets), fail)
           rest == AfterCancel(orders, targets, fail)
           wait == Call("wait", symbol, side, 0, 0, TRUE)
           tick == TraderTick(symbol, res)
           sl_n == NormalizePrice(tick, sl)
           tp_n == NormalizePrice(tick, tp)
           slOrder == TraderOrder(rest, symbol, side, "STOP_MARKET", sl_n)
           withSl == IF sl # 0 /\ slOk THEN rest \cup {slOrder} ELSE rest
           tpOrder == TraderOrder(withSl, symbol, side, "TAKE_PROFIT_MARKET", tp_n)
           slCall == IF sl # 0
                     THEN <<Call("place", symbol, side,
                                 IF slOk THEN slOrder.id ELSE 0, sl_n, slOk)>>
                     ELSE <<>>
           tpCall == IF tp # 0
                     THEN <<Call("place_tp", symbol, side,
                                 IF tpOk THEN tpOrder.id ELSE 0, tp_n, tpOk)>>
                     ELSE <<>>
           nothing == sl = 0 /\ tp = 0
       IN
       /\ (sl = 0 => slOk) /\ (tp = 0 => tpOk)
       /\ (nothing \/ symbolInfoCache[symbol] # 0) => res = "ok"
       /\ (nothing \/ tick < 0) => slOk /\ tpOk
       /\ nothing => baseOk /\ algoOk
       /\ faults' = faults + Failed(res, baseOk, algoOk, fail, slOk)
                           + (IF tpOk THEN 0 ELSE 1)
       /\ faults' <= MaxFaults
       /\ symbolInfoCache' =
             IF nothing \/ tick < 0 \/ res = "nofilter" THEN symbolInfoCache
             ELSE [symbolInfoCache EXCEPT ![symbol] = tick]
       /\ IF nothing \/ tick < 0
          THEN \* the filter lookup raises out of _place_tp_sl: nothing placed
               /\ orders' = rest
               /\ calls' = cancels \o <<wait>>
          ELSE /\ orders' = IF tp # 0 /\ tpOk THEN withSl \cup {tpOrder} ELSE withSl
               /\ calls' = cancels \o <<wait>> \o slCall \o tpCall
       /\ last' = [NoEval EXCEPT !.symbol = symbol, !.position_side = side,
                                 !.outcome = "trader",
                                 !.new_sl = sl, !.new_tp = tp,
                                 !.stops = {o.id : o \in RestingStops(<<symbol, side>>)}]
    /\ UNCHANGED <<monitorVars, account, pickVars, loopVars, logFile,
                   markPriceFeed, normVars, schedVars,
                   pending>>

(* The monitor with one setting, next to the trade executor *)
InitTrader ==
    /\ Init
    /\ cfg \in Options({"breakeven"}, {FALSE}, {FALSE}, {BufferTicks}, {{}})

NextTrader == Next \/ UpdateTpSl

SpecTrader == InitTrader /\ [][NextTrader]_vars

----------------------------------------------------------------------------
(* The reconciler's effective-stop selection on its own: every list of up to
   MaxCandidates candidates, for either side *)

CandidatePrices == {0, 19400, 19600, 19800, 20200, 20400, 20600}

RECURSIVE ListsUpTo(_, _)
ListsUpTo(S, n) ==
    IF n = 0 THEN {<<>>}
    ELSE LET shorter == ListsUpTo(S, n - 1)
         IN shorter \cup {Append(l, x) : l \in shorter, x \in S}

Candidate(price) == [source |-> "base_order", stopPrice |-> price]

InitPick ==
    /\ cfg \in Options({"breakeven"}, {FALSE}, {FALSE}, {BufferTicks}, {{}})
    /\ now = StartTime
    /\ pc = "pick"
    /\ account = Positions
    /\ orders = {}
    /\ tickCache = [s \in Symbols |-> 0]
    /\ lastUpdate = [k \in Keys |-> 0]
    /\ snapshot = <<>>
    /\ idx = 0
    /\ nowTs = 0
    /\ messages = <<>>
    /\ history = <<>>
    /\ calls = <<>>
    /\ last = NoEval
    /\ faults = 0
    /\ symbolInfoCache = [s \in Symbols |-> 0]
    /\ traderRuns = 0
    /\ candidates \in [position_side : Sides,
                       stop_orders : {[i \in DOMAIN l |-> Candidate(l[i])] :
                                         l \in ListsUpTo(CandidatePrices, MaxCandidates)}]
    /\ picked = -1
    /\ LoopIdle
    /\ rateLimitsLeft = 0
    /\ pollsLeft = MaxPolls
    /\ NormalizeIdle
    /\ SchedulerIdle
    /\ TraderIdle

(* current_sl = _pick_current_sl_price(position_side, stop_orders) *)
PickStep ==
    /\ pc = "pick"
    /\ picked = -1
    /\ picked' = PickCurrentSlPrice(candidates.position_side, candidates.stop_orders)
    /\ UNCHANGED <<cfg, now, pc, account, orders, tickCache, lastUpdate,
                   snapshot, idx, nowTs, messages, history, calls, last,
                   faults, symbolInfoCache, traderRuns, candidates, loopVars,
                   logFile, markPriceFeed, normVars, schedVars,
                   pending>>

NextPick == PickStep

SpecPick == InitPick /\ [][NextPick]_vars

----------------------------------------------------------------------------
(* Properties *)

LastKey == <<last.symbol, last.position_side>>

IsWrite(c) == c.op \in {"cancel", "place"}

CallsFor(k) ==
    {i \in DOMAIN calls : calls[i].symbol = k[1] /\ calls[i].position_side = k[2]}

Places == {i \in DOMAIN calls : calls[i].op = "place"}

(* C1 - Throttle: in every step of the engine, a key whose last update is
   less than min_interval_sec before the call's now_ts gets no cancel and no
   place call in that step, whatever the mark price is. *)
ThrottleRespected ==
    [][\A k \in Keys :
          nowTs' - lastUpdate[k] < cfg.min_interval_sec
          => \A i \in DOMAIN calls' :
                ~(/\ calls'[i].symbol = k[1]
                  /\ calls'[i].position_side = k[2]
                  /\ IsWrite(calls'[i]))]_vars

(* a throttled key was met while the mark price is past breakeven *)
ThrottleWitness ==
    /\ last.outcome = "throttled"
    /\ nowTs - lastUpdate[LastKey] < cfg.min_interval_sec
    /\ lastUpdate[LastKey] > 0
    /\ last.mark \in {20200, 19800}

(* C2 - Monotonic stop progression: a stop placed for a position that has an
   effective stop S is at least S for LONG and at most S for SHORT, and a
   step whose computed target is less protective than S issues no cancel and
   no place; in both modes, in every poll. *)
MonotonicProgression ==
    /\ \A i \in Places :
          last.current_sl > 0
          => IF last.position_side = "LONG"
             THEN calls[i].price >= last.current_sl
             ELSE calls[i].price <= last.current_sl
    /\ (/\ last.current_sl > 0
        /\ last.new_sl > 0
        /\ IF last.position_side = "LONG"
           THEN last.new_sl < last.current_sl
           ELSE last.new_sl > last.current_sl)
       => calls = <<>>

(* an existing stop was replaced by a strictly more protective one *)
MonotonicWitness ==
    \E i \in Places :
        /\ last.current_sl > 0
        /\ calls[i].ok
        /\ Len(calls) > 1
        /\ IF last.position_side = "LONG"
           THEN calls[i].price > last.current_sl
           ELSE calls[i].price < last.current_sl

(* C3 - No self-trigger: every stop placed for a LONG is strictly below
   mark - tick * buffer_ticks, every stop placed for a SHORT strictly above
   mark + tick * buffer_ticks, for every buffer_ticks >= 0. *)
NoSelfTriggerStrict ==
    \A i \in Places :
        IF last.position_side = "LONG"
        THEN calls[i].price < last.mark - last.tick * cfg.buffer_ticks
        ELSE calls[i].price > last.mark + last.tick * cfg.buffer_ticks

(* C5 as stated - Initial stop in stepwise mode: for a LONG position with no
   current stop the stop placed is the floor to the tick of
   min(entry + max(entry * step_pct / 100, tick), mark - tick * buffer_ticks);
   entry 100, mark 101, step 0.05, two buffer ticks, tick 0.01 give 100.05. *)
InitialStopOneStepPastEntry ==
    \A i \in Places :
        (~IsLockProfit /\ last.position_side = "LONG" /\ last.current_sl = 0)
        => calls[i].price =
              NormalizePriceFloor(last.tick,
                  Min(last.entry * PctDen
                        + Max(last.entry * cfg.step_pct, last.tick * PctDen),
                      (last.mark - last.tick * cfg.buffer_ticks) * PctDen))

(* C5 amended - for a LONG position with no current stop the stop placed in
   stepwise mode is the floor to the tick of
   min(entry, mark - tick * buffer_ticks); entry 100, mark 101, two buffer
   ticks, tick 0.01 give 100.00. *)
InitialStopAtEntry ==
    \A i \in Places :
        (~IsLockProfit /\ last.position_side = "LONG" /\ last.current_sl = 0)
        => /\ calls[i].price =
                 NormalizePriceFloor(last.tick,
                     Min(last.entry * PctDen,
                         (last.mark - last.tick * cfg.buffer_ticks) * PctDen))
           /\ (/\ last.entry = 20000
               /\ last.mark = 20200
               /\ last.tick = 2
               /\ cfg.buffer_ticks = 2
               /\ cfg.step_pct = 5) => calls[i].price = 20000

(* the scenario: entry 100.00, mark 101.00, step 0.05%, two buffer ticks,
   tick 0.01, no current stop, and a stop was placed *)
InitialStopWitness ==
    \E i \in Places :
        /\ ~IsLockProfit
        /\ last.position_side = "LONG"
        /\ last.current_sl = 0
        /\ last.entry = 20000
        /\ last.mark = 20200
        /\ last.tick = 2
        /\ cfg.buffer_ticks = 2
        /\ cfg.step_pct = 5
        /\ calls[i].ok

(* the target a run computes from the inputs of the last evaluation *)
ComputedTarget ==
    IF IsLockProfit
    THEN LockProfitTarget(last.position_side, last.entry, last.mark,
                          last.buffer_price, last.current_sl, last.tick)
    ELSE StepwiseTarget(last.position_side, last.entry, last.mark,
                        last.buffer_price, last.current_sl, last.tick)

(* C6 - Dry-run no-op: with dry_run the engine issues no cancel and no place
   in any poll, and the price its message carries is the price a live run
   sends to the exchange for the same inputs (the computed target as
   format_stop_price renders it). *)
DryRunNoOp ==
    cfg.dry_run
    => /\ calls = <<>>
       /\ last.outcome = "simulated"
          => /\ messages # <<>>
             /\ messages[Len(messages)].kind = "simulated"
             /\ messages[Len(messages)].symbol = last.symbol
             /\ messages[Len(messages)].new_sl =
                   FormatStopPrice(last.tick, last.position_side, ComputedTarget)

(* a dry run simulated the replacement of an existing stop *)
DryRunWitness ==
    /\ cfg.dry_run
    /\ last.outcome = "simulated"
    /\ last.current_sl > 0
    /\ RestingStops(LastKey) # {}

Attempted == {"simulated", "updated", "failed"}

(* C7 - Throttle timestamp lifecycle: a step of the engine sets
   last_update[key] to the call's now_ts when it attempted a progression for
   the key (simulated, updated or failed), and no other step and no
   evaluate-and-skip outcome changes any last_update entry. *)
TimestampLifecycle ==
    [][/\ \A k \in Keys :
             lastUpdate'[k] # lastUpdate[k]
             => /\ pc = "engine"
                /\ last'.outcome \in Attempted
                /\ k = <<last'.symbol, last'.position_side>>
                /\ lastUpdate'[k] = nowTs
       /\ (pc = "engine" /\ idx' = idx + 1 /\ last'.outcome \in Attempted)
          => lastUpdate'[<<last'.symbol, last'.position_side>>] = nowTs
      ]_vars

(* a live replacement failed and the timestamp of its key is the call's *)
TimestampWitness ==
    /\ last.outcome = "failed"
    /\ lastUpdate[LastKey] = nowTs
    /\ nowTs > StartTime

(* C8 - Write-path protocol: in a replacement the place call comes after a
   cancel call for every stop order of the key that rested on the exchange
   and after a settling wait that follows the last cancel: the call right
   before every place is the wait, and no cancel follows the wait. *)
CancelWaitPlace ==
    \A i \in Places :
        /\ i > 1
        /\ calls[i - 1].op = "wait"
        /\ \A j \in 1..(i - 2) : calls[j].op = "cancel"
        /\ last.stops \subseteq {calls[j].id : j \in 1..(i - 1)}

(* C9 - Listing failure: a failed listing call is taken as an empty listing
   and the step goes on, and it never makes the engine place a stop for a
   key of which it saw no stop while an earlier stop of that key rests on
   the exchange. *)
ListingFailureNoDuplicate ==
    (/\ last.listed
     /\ ~(last.base_ok /\ last.algo_ok)
     /\ last.current_sl = 0
     /\ Places # {})
    => /\ last.outcome \in {"updated", "failed"}
       /\ \A o \in RestingStops(LastKey) :
             \E i \in Places : calls[i].ok /\ calls[i].id = o.id

(* C10 - Per-position error containment: an error raised while a position is
   processed leaves the engine in its loop, with the messages produced so
   far and a failure record that names the symbol as the last message. *)
ErrorContained ==
    last.outcome \in {"raised", "failed"}
    => /\ pc = "engine"
       /\ messages # <<>>
       /\ messages[Len(messages)].kind = "failed"
       /\ messages[Len(messages)].symbol = last.symbol

(* C4 - Hard-breach bypass: under the fixed-max-loss policy, a position whose
   loss percent is above max_loss_percent (LONG entry 100, maximum 0.5%,
   mark 99.4) gets, in that cycle, a market close of its full quantity and
   no cancel and no place of a stop order. *)
HardBreachBypass ==
    (/\ last.outcome # "none"
     /\ last.outcome \notin {"filtered", "no_price", "raised", "other_side"}
     /\ IF last.position_side = "LONG"
        THEN (last.entry - last.mark) * PctDen > cfg.max_loss_pct * last.entry
        ELSE (last.mark - last.entry) * PctDen > cfg.max_loss_pct * last.entry)
    => /\ \E i \in DOMAIN calls :
            /\ calls[i].op = "close"
            /\ calls[i].symbol = last.symbol
            /\ calls[i].position_side = last.position_side
            /\ \E j \in 1..Len(snapshot) :
                  /\ Key(snapshot[j]) = LastKey
                  /\ calls[i].qty = snapshot[j].qty
       /\ \A i \in DOMAIN calls : ~IsWrite(calls[i])

(* the scenario: LONG, entry 100.00, mark 99.40, and the close was issued
   while a stop order of the key rests on the exchange *)
HardBreachWitness ==
    /\ last.outcome = "closed"
    /\ last.position_side = "LONG"
    /\ last.entry = 20000
    /\ last.mark = 19880
    /\ cfg.max_loss_pct = 50
    /\ RestingStops(LastKey) # {}
    /\ Len(calls) = 1
    /\ calls[1].op = "close"

(* the positive trigger prices among the candidates *)
CandidatePriceSet ==
    {candidates.stop_orders[i].stopPrice : i \in DOMAIN candidates.stop_orders}
    \ {0}

(* C11 - Effective-stop selection: for a list of candidates with at least one
   positive trigger price the reconciler returns the greatest price for LONG
   and the least for SHORT, a function of the set of prices and so the same
   for every order of the list (LONG [98, 99, 97] gives 99, SHORT
   [102, 101, 103] gives 101); for no candidate it returns no stop. *)
EffectiveStopSelection ==
    picked # -1
    => /\ CandidatePriceSet = {} => picked = 0
       /\ (CandidatePriceSet # {} /\ candidates.position_side = "LONG")
             => picked = SetMax(CandidatePriceSet)
       /\ (CandidatePriceSet # {} /\ candidates.position_side = "SHORT")
             => picked = SetMin(CandidatePriceSet)
       /\ (candidates.position_side = "LONG" /\ Len(candidates.stop_orders) = 3
           /\ CandidatePriceSet = {19600, 19800, 19400}) => picked = 19800
       /\ (candidates.position_side = "SHORT" /\ Len(candidates.stop_orders) = 3
           /\ CandidatePriceSet = {20400, 20200, 20600}) => picked = 20200

(* the LONG example: stops at 98, 99, 97 in this order, and 99 was returned *)
EffectiveStopWitness ==
    /\ candidates.position_side = "LONG"
    /\ candidates.stop_orders =
          <<Candidate(19600), Candidate(19800), Candidate(19400)>>
    /\ picked = 19800

(* C12 - Stop-order candidate filter: an order of either listing that the
   engine counts as a stop order of the key it processes, and every order it
   sends a cancel for, has the key's symbol and position side, a type in
   SL_ORDER_TYPES, a true reduce-only or close-position flag and a positive
   trigger price. *)
StopCandidateFilter ==
    [][pc = "engine"
       => \A o \in orders :
             (\/ o.id \in last'.stops
              \/ \E i \in DOMAIN calls' :
                    calls'[i].op = "cancel" /\ calls'[i].id = o.id)
             => /\ o.symbol = last'.symbol
                /\ o.positionSide = last'.position_side
                /\ o.type \in SL_ORDER_TYPES
                /\ IsReduceOnlyOrClosePosition(o)
                /\ o.stopPrice > 0]_vars

TakeProfits == {o \in orders : o.type \in TP_SL_TYPES("tp")}

(* C13 - The engine never cancels a take-profit order: no step of the
   monitor changes the set of resting TAKE_PROFIT / TAKE_PROFIT_MARKET
   orders, a replacement of the key's stop included. *)
TakeProfitsUntouched ==
    [][TakeProfits' = TakeProfits]_vars

(* a stop was cancelled and replaced while a take-profit of the same key
   rests on the exchange *)
TakeProfitsWitness ==
    /\ last.outcome = "updated"
    /\ \E i \in DOMAIN calls : calls[i].op = "cancel" /\ calls[i].ok
    /\ \E o \in TakeProfits :
          o.symbol = last.symbol /\ o.positionSide = last.position_side

(* C14 - Cancel failures are tolerated: when a cancel of a replacement is
   rejected, the engine still sends a cancel for every stop order of the key
   and the place call, reports the replacement as updated when the place is
   accepted, and logs the cancel failure. *)
CancelFailureTolerated ==
    (\E i \in DOMAIN calls : calls[i].op = "cancel" /\ ~calls[i].ok)
    => /\ last.stops \subseteq
             {calls[j].id : j \in {i \in DOMAIN calls : calls[i].op = "cancel"}}
       /\ Places # {}
       /\ (\A i \in Places : calls[i].ok) => last.outcome = "updated"
       /\ \E n \in DOMAIN messages :
             /\ messages[n].kind = "cancel_failed"
             /\ messages[n].symbol = last.symbol

(* the last attempt recorded for key k is a failure the history holds *)
LastAttemptFailed(k) ==
    \E n \in DOMAIN history :
        /\ history[n].line.kind = "failed"
        /\ history[n].line.symbol = k[1]
        /\ history[n].line.position_side = k[2]
        /\ history[n].ts = lastUpdate[k]

(* the price conditions under which the engine moves the stop of the
   position it has evaluated *)
Qualifies(ev) ==
    /\ ev.outcome \notin {"none", "filtered", "no_price", "raised", "other_side"}
    /\ ~NotAtBreakeven(ev.position_side, ev.entry, ev.mark, ev.buffer_price)
    /\ IsLockProfit => ~BelowActivation(ev.position_side, ev.entry, ev.mark)
    /\ ev.outcome \notin {"at_breakeven", "no_change"}

(* C15 - Exchange rejection on write: a step whose place call is rejected
   appends a failure record for the symbol and side and sets the key's
   last_update to the call's now_ts; and a later step that evaluates the key
   when it is no longer throttled and the position still qualifies issues a
   place call again. *)
RejectionRetried ==
    [][pc = "engine" /\ idx' = idx + 1
       => LET k == <<last'.symbol, last'.position_side>> IN
          /\ last'.outcome = "failed"
             => /\ messages' # <<>>
                /\ messages'[Len(messages')].kind = "failed"
                /\ messages'[Len(messages')].symbol = k[1]
                /\ messages'[Len(messages')].position_side = k[2]
                /\ lastUpdate'[k] = nowTs
          /\ (/\ k \in Keys
              /\ LastAttemptFailed(k)
              /\ nowTs - lastUpdate[k] >= cfg.min_interval_sec
              /\ Qualifies(last'))
             => \E i \in DOMAIN calls' :
                   /\ calls'[i].op = "place"
                   /\ calls'[i].symbol = k[1]
                   /\ calls'[i].position_side = k[2]]_vars

(* a place call is issued for a key whose last attempt, in an earlier poll,
   was a recorded failure *)
RejectionRetriedWitness ==
    /\ Places # {}
    /\ \E n \in DOMAIN history :
          /\ history[n].line.kind = "failed"
          /\ history[n].line.symbol = last.symbol
          /\ history[n].line.position_side = last.position_side
          /\ history[n].ts < nowTs
          /\ nowTs - history[n].ts >= cfg.min_interval_sec

(* C16 - In stepwise mode a key whose effective stop, as the reconciler
   returns it, is at or better than the entry price (>= entry for LONG,
   <= entry for SHORT) gets no cancel and no place, whatever the mark price. *)
StopAtEntryUntouched ==
    (/\ ~IsLockProfit
     /\ last.listed
     /\ last.current_sl > 0
     /\ IF last.position_side = "LONG"
        THEN last.current_sl >= last.entry
        ELSE last.current_sl <= last.entry)
    => /\ calls = <<>>
       /\ last.outcome = "at_breakeven"

(* a stop past the entry price was met with the mark price far in profit,
   and it still rests *)
StopAtEntryWitness ==
    /\ ~IsLockProfit
    /\ last.outcome = "at_breakeven"
    /\ last.mark \in {20200, 19800}
    /\ last.current_sl # last.entry
    /\ \E o \in RestingStops(LastKey) : o.stopPrice = last.current_sl

(* C17 - In stepwise mode no placed stop overshoots breakeven: every price of
   a place call is <= entry for LONG and >= entry for SHORT, after the
   rounding to the tick. *)
NoOvershoot ==
    ~IsLockProfit
    => \A i \in Places :
          IF last.position_side = "LONG"
          THEN calls[i].price <= last.entry
          ELSE calls[i].price >= last.entry

(* a stop was stepped towards the entry price and the rounding to the tick
   moved the price that was placed *)
NoOvershootWitness ==
    /\ ~IsLockProfit
    /\ last.current_sl > 0
    /\ \E i \in Places :
          /\ calls[i].ok
          /\ calls[i].price # last.entry
          /\ calls[i].price % 5 # 0

(* the position evaluated last passed the symbol filter, has positive
   prices, is LONG or SHORT, is not throttled and (lock_profit) not below
   activation, in a live run, and no stop order of its key rested on the
   exchange when it was evaluated *)
NeedsInitialStop ==
    /\ last.outcome \notin {"none", "filtered", "no_price", "raised", "other_side"}
    /\ ~cfg.dry_run
    /\ last.outcome # "throttled"
    /\ last.outcome = "not_breakeven"
          => nowTs - lastUpdate[LastKey] >= cfg.min_interval_sec
    /\ IsLockProfit => ~BelowActivation(last.position_side, last.entry, last.mark)
    /\ last.stops = {}
    /\ \A o \in RestingStops(LastKey) :
          \E i \in Places : calls[i].ok /\ calls[i].id = o.id

(* C18 as stated - Needs-initial-stop: such a position gets a stop placed in
   that poll unconditionally, also when the mark price has not moved past
   the entry price. *)
InitialStopUnconditional ==
    NeedsInitialStop => Places # {}

(* C18 amended - such a position gets a stop placed in that poll when the
   mark price has moved past the entry price by at least the safety buffer
   (mark - buffer_price >= entry for LONG, mark + buffer_price <= entry for
   SHORT); otherwise the engine skips the key without any call. *)
InitialStopPastBuffer ==
    NeedsInitialStop
    => IF \/ /\ last.position_side = "LONG"
             /\ last.mark - last.tick * cfg.buffer_ticks < last.entry
          \/ /\ last.position_side = "SHORT"
             /\ last.mark + last.tick * cfg.buffer_ticks > last.entry
       THEN calls = <<>> /\ last.outcome = "not_breakeven"
       ELSE /\ Places # {}
            /\ \A i \in Places :
                  /\ calls[i].symbol = last.symbol
                  /\ calls[i].position_side = last.position_side

(* a first stop was placed for a position at the edge of the safety buffer *)
InitialStopPastBufferWitness ==
    /\ NeedsInitialStop
    /\ cfg.buffer_ticks = BufferTicks
    /\ last.mark \in {20004, 19996}
    /\ \E i \in Places : calls[i].ok

(* C19 - Below-activation: in lock_profit mode a step that evaluates a
   position whose profit percent is below activate_profit_pct issues no
   cancel and no place and leaves every last_update entry unchanged. *)
BelowActivationSkipped ==
    [][(/\ pc = "engine"
        /\ idx' = idx + 1
        /\ IsLockProfit
        /\ last'.entry > 0
        /\ (IF last'.position_side = "LONG"
            THEN last'.mark - last'.entry
            ELSE last'.entry - last'.mark) * PctDen
              < cfg.activate_profit_pct * last'.entry)
       => /\ calls' = <<>>
          /\ lastUpdate' = lastUpdate
          /\ orders' = orders]_vars

(* a position in profit past the safety buffer and under the threshold was
   skipped while a stop of its key rests *)
BelowActivationWitness ==
    /\ last.outcome = "below_activation"
    /\ last.mark \in {20004, 19996}
    /\ last.current_sl > 0
    /\ calls = <<>>

(* C20 - Throttled keys and messages: a step that finds its key throttled
   adds no message for the key when verbose is off and adds a skip message
   for the key when verbose is on. *)
ThrottledMessages ==
    [][(pc = "engine" /\ idx' = idx + 1 /\ last'.outcome = "throttled")
       => IF cfg.verbose
          THEN /\ Len(messages') = Len(messages) + 1
               /\ messages'[Len(messages')].symbol = last'.symbol
               /\ messages'[Len(messages')].position_side = last'.position_side
          ELSE messages' = messages]_vars

----------------------------------------------------------------------------
(* Price filter cache *)

(* C21 - Tick-size cache: a cached tick size never changes; an engine
   iteration for a symbol whose tick size is cached does not ask the
   exchange; a tick size enters the cache only by a lookup the exchange
   answered, and it is 0.01 when the answer has no price filter for the
   symbol, the exchange's tick size otherwise. *)
TickCacheStable ==
    [][\A s \in Symbols :
          /\ tickCache[s] # 0 => tickCache'[s] = tickCache[s]
          /\ ( /\ tickCache[s] # 0
               /\ pc = "engine"
               /\ idx <= Len(snapshot)
               /\ snapshot[idx].symbol = s )
             => last'.symbol = s /\ last'.lookup = "none"
          /\ (tickCache[s] = 0 /\ tickCache'[s] # 0)
             => /\ last'.symbol = s
                /\ last'.lookup \in {"ok", "nofilter"}
                /\ last'.lookup = "nofilter" => tickCache'[s] = DefaultTick
                /\ last'.lookup = "ok" => tickCache'[s] = ExchangeTick(s)
      ]_vars

(* the default cached for a symbol without price filter is reused by a later
   evaluation that does not ask the exchange *)
TickCacheWitness ==
    /\ last.symbol = "ETHUSDT"
    /\ last.outcome \notin {"none", "filtered", "no_price", "raised"}
    /\ last.lookup = "none"
    /\ last.tick = DefaultTick
    /\ tickCache["ETHUSDT"] = DefaultTick
    /\ now > StartTime

(* C22 - Cache degradation: a filter lookup that errors for a symbol not yet
   cached leaves the symbol with the default tick size 0.01 and the caller
   goes on without an error. *)
LookupFailureDegrades ==
    last.lookup = "error"
        => last.outcome # "raised" /\ tickCache[last.symbol] = DefaultTick

----------------------------------------------------------------------------
(* The price normalizer on its own: floor, ceiling and stop-price format of
   every price of a bounded set, for several tick sizes *)

NormSpan == 3          \* prices within NormSpan units of 0 and of 100.00

NormTicks == {1, DefaultTick, 5}

(* prices times PctDen: whole units, and units plus a fraction of a unit *)
NormPrices ==
    {u * PctDen + f :
        u \in ((-NormSpan)..(2 * NormSpan))
              \cup ((20000 - NormSpan)..(20000 + NormSpan)),
        f \in {0, 1, PctDen \div 2, PctDen - 1}}

InitNormalize ==
    /\ cfg \in Options({"breakeven"}, {FALSE}, {FALSE}, {BufferTicks}, {{}})
    /\ now = StartTime
    /\ pc = "normalize"
    /\ account = Positions
    /\ orders = {}
    /\ tickCache = [s \in Symbols |-> 0]
    /\ lastUpdate = [k \in Keys |-> 0]
    /\ snapshot = <<>>
    /\ idx = 0
    /\ nowTs = 0
    /\ messages = <<>>
    /\ history = <<>>
    /\ calls = <<>>
    /\ last = NoEval
    /\ faults = 0
    /\ symbolInfoCache = [s \in Symbols |-> 0]
    /\ traderRuns = 0
    /\ candidates = [position_side |-> "", stop_orders |-> <<>>]
    /\ picked = -1
    /\ LoopIdle
    /\ rateLimitsLeft = 0
    /\ pollsLeft = MaxPolls
    /\ markPriceFeed = [s \in Symbols |-> 0]
    /\ priceArg \in [tick : NormTicks, x : NormPrices, position_side : Sides]
    /\ normalized = <<>>
    /\ SchedulerIdle
    /\ TraderIdle

(* _normalize_price_floor and _normalize_price_ceil of the price, each applied
   again to its own result, and _format_stop_price of either result *)
NormalizeStep ==
    /\ pc = "normalize"
    /\ LET tick == priceArg.tick
           floor == NormalizePriceFloor(tick, priceArg.x)
           ceil == NormalizePriceCeil(tick, priceArg.x)
       IN normalized' =
             [floor |-> floor,
              ceil |-> ceil,
              floor_again |-> NormalizePriceFloor(tick, floor * PctDen),
              ceil_again |-> NormalizePriceCeil(tick, ceil * PctDen),
              formatted_floor |-> FormatStopPrice(tick, priceArg.position_side, floor),
              formatted_ceil |-> FormatStopPrice(tick, priceArg.position_side, ceil)]
    /\ pc' = "normalized"
    /\ UNCHANGED <<cfg, now, account, orders, tickCache, lastUpdate,
                   snapshot, idx, nowTs, messages, history, calls, last,
                   faults, symbolInfoCache, traderRuns, pickVars, loopVars,
                   logFile, markPriceFeed, priceArg, schedVars, pending>>

NextNormalize == NormalizeStep

SpecNormalize == InitNormalize /\ [][NextNormalize]_vars

(* C23 - Directional correctness of normalization: for a tick t > 0 and a
   price p, the floor is a multiple of t with floor <= p < floor + t and the
   ceiling is a multiple of t with ceil - t < p <= ceil. *)
DirectionalCorrectness ==
    pc = "normalized" =>
        LET t == priceArg.tick
            x == priceArg.x
        IN /\ normalized.floor % t = 0
           /\ normalized.floor * PctDen <= x
           /\ x < (normalized.floor + t) * PctDen
           /\ normalized.ceil % t = 0
           /\ (normalized.ceil - t) * PctDen < x
           /\ x <= normalized.ceil * PctDen

(* a price strictly between two multiples of the tick 0.025 *)
DirectionalWitness ==
    /\ pc = "normalized"
    /\ priceArg.tick = 5
    /\ normalized.floor = 20000
    /\ normalized.ceil = 20005
    /\ priceArg.x = 20002 * PctDen + 1

(* C24 - Idempotent normalization: the floor of a floor is the floor and the
   ceiling of a ceiling is the ceiling; the stop-price format applied at
   placement to either leaves it as it is. *)
IdempotentNormalization ==
    pc = "normalized" =>
        /\ normalized.floor_again = normalized.floor
        /\ normalized.ceil_again = normalized.ceil
        /\ normalized.formatted_floor = normalized.floor
        /\ normalized.formatted_ceil = normalized.ceil

(* a price off the tick grid whose ceiling is formatted for a LONG position
   (floor rounding) and stays *)
IdempotentWitness ==
    /\ pc = "normalized"
    /\ priceArg.tick = DefaultTick
    /\ priceArg.position_side = "LONG"
    /\ normalized.floor < normalized.ceil
    /\ normalized.formatted_ceil = normalized.ceil
    /\ normalized.floor_again = 19998

----------------------------------------------------------------------------
(* The monitor against an exchange that answers some calls with the rate
   limit error -1003 *)

InitBackoff ==
    /\ cfg \in Options({"lock_profit"}, {FALSE}, {FALSE}, {BufferTicks}, {{}})
    /\ now = StartTime
    /\ pc = "fetch"
    /\ account = Positions
    /\ orders = {Order(1, "BTCUSDT", "LONG", "STOP_MARKET", 19990, "base_order", TRUE)}
    /\ tickCache = [s \in Symbols |-> 0]
    /\ lastUpdate = [k \in Keys |-> 0]
    /\ snapshot = <<>>
    /\ idx = 0
    /\ nowTs = 0
    /\ messages = <<>>
    /\ history = <<>>
    /\ calls = <<>>
    /\ last = NoEval
    /\ faults = 0
    /\ symbolInfoCache = [s \in Symbols |-> 0]
    /\ traderRuns = 0
    /\ candidates = [position_side |-> "", stop_orders |-> <<>>]
    /\ picked = -1
    /\ LoopIdle
    /\ rateLimitsLeft = MaxRateLimits
    /\ pollsLeft = MaxPolls
    /\ NormalizeIdle
    /\ SchedulerIdle
    /\ TraderIdle

SpecBackoff == InitBackoff /\ [][Next]_vars

(* C25 - Rate-limit backoff: a cycle that ends in the rate-limit handler
   sleeps the base delay when the previous cycle was not rate-limited, and
   twice the previous cycle's delay, at most the cap, when it was. *)
BackoffDoubles ==
    [][(pc # "sleep" /\ caught' = "rate_limit")
          => now' - now = IF backoffSlept = 0 THEN BackoffBase
                          ELSE Min(BackoffCap, 2 * backoffSlept)
      ]_vars

(* C26 - Rate-limit signal handling: whichever call of a cycle gets the
   rate-limit answer, the cycle ends there in the rate-limit handler with the
   backoff sleep; the warning is printed only when the last one is older
   than the cooldown. *)
RateLimitEndsCycle ==
    [][/\ rateLimitsLeft' < rateLimitsLeft
          => /\ pc' = "sleep"
             /\ caught' = "rate_limit"
             /\ rateLimitBackoffSec' >= BackoffBase
             /\ now' - now = rateLimitBackoffSec'
       /\ lastRateLimitNoticeTs' # lastRateLimitNoticeTs
          => now - lastRateLimitNoticeTs > NoticeCooldown
      ]_vars

----------------------------------------------------------------------------
(* The main loop with its exits: --once, KeyboardInterrupt; a cycle that has
   reached the bottom of the loop does sleep and start the next one *)

InitLoop ==
    /\ cfg \in {[c EXCEPT !.once = o] :
                   c \in Options({"breakeven"}, {TRUE}, {FALSE}, {BufferTicks}, {{}}),
                   o \in BOOLEAN}
    /\ now = StartTime
    /\ pc = "fetch"
    /\ account = Positions
    /\ orders = {Order(1, "BTCUSDT", "LONG", "STOP_MARKET", 19990, "base_order", TRUE)}
    /\ tickCache = [s \in Symbols |-> 0]
    /\ lastUpdate = [k \in Keys |-> 0]
    /\ snapshot = <<>>
    /\ idx = 0
    /\ nowTs = 0
    /\ messages = <<>>
    /\ history = <<>>
    /\ calls = <<>>
    /\ last = NoEval
    /\ faults = 0
    /\ symbolInfoCache = [s \in Symbols |-> 0]
    /\ traderRuns = 0
    /\ candidates = [position_side |-> "", stop_orders |-> <<>>]
    /\ picked = -1
    /\ LoopIdle
    /\ rateLimitsLeft = 1
    /\ pollsLeft = 1
    /\ NormalizeIdle
    /\ SchedulerIdle
    /\ TraderIdle

NextLoop == Next \/ Interrupt

SpecLoop == InitLoop /\ [][NextLoop]_vars /\ WF_vars(Sleep)

(* C27 - The monitoring loop keeps running after an error: once a cycle has
   ended in an exception handler, the next cycle starts, unless --once was
   given or the user interrupts (or the run is at its last cycle). *)
LoopKeepsRunning ==
    (caught # "" /\ ~cfg.once /\ pollsLeft > 0)
        ~> (pc = "fetch" \/ pc = "interrupted")

(* the cycle after a rate-limited one starts, backoff and interval later *)
LoopKeepsRunningWitness ==
    /\ pc = "fetch"
    /\ caught = "rate_limit"
    /\ ~cfg.once
    /\ now = StartTime + BackoffBase + Interval

----------------------------------------------------------------------------
(* The action history on its own: up to MaxAppends calls of
   _append_sl_history with any list of up to two lines, for every max_keep up
   to MaxKeep, without and with a log file that may fail to be written *)

HistoryLines ==
    {Message("updated", "BTCUSDT", "LONG", 19990, 20000, 1),
     Message("failed", "ETHUSDT", "SHORT", 0, 0, 0)}

InitHistory ==
    /\ cfg \in {[c EXCEPT !.max_keep = k, !.log_file = f] :
                   c \in Options({"breakeven"}, {FALSE}, {FALSE}, {BufferTicks}, {{}}),
                   k \in 0..MaxKeep, f \in {"", "sl.log"}}
    /\ now = StartTime
    /\ pc = "append"
    /\ account = Positions
    /\ orders = {}
    /\ tickCache = [s \in Symbols |-> 0]
    /\ lastUpdate = [k \in Keys |-> 0]
    /\ snapshot = <<>>
    /\ idx = 0
    /\ nowTs = 0
    /\ messages = <<>>
    /\ history = <<>>
    /\ calls = <<>>
    /\ last = NoEval
    /\ faults = 0
    /\ symbolInfoCache = [s \in Symbols |-> 0]
    /\ traderRuns = 0
    /\ candidates = [position_side |-> "", stop_orders |-> <<>>]
    /\ picked = -1
    /\ LoopIdle
    /\ rateLimitsLeft = 0
    /\ pollsLeft = MaxAppends
    /\ NormalizeIdle
    /\ SchedulerIdle
    /\ TraderIdle

(* _append_sl_history(lines, max_keep, log_file), one second after the
   previous call; messages keeps the lines given *)
AppendStep ==
    /\ pc = "append"
    /\ pollsLeft > 0
    /\ \E lines \in ListsUpTo(HistoryLines, 2), sinkOk \in BOOLEAN :
       \E w \in {AppendAndLog(history, lines, cfg.max_keep, logFile,
                               cfg.log_file, sinkOk)} :
           /\ (cfg.log_file = "" \/ lines = <<>>) => sinkOk
           /\ messages' = lines
           /\ history' = w.history
           /\ logFile' = w.log
           /\ caught' = IF w.raised THEN "error" ELSE ""
    /\ pollsLeft' = pollsLeft - 1
    /\ now' = now + Interval
    /\ UNCHANGED <<cfg, pc, account, orders, tickCache, lastUpdate, snapshot,
                   idx, nowTs, calls, last, faults, symbolInfoCache,
                   traderRuns, pickVars, rateLimitBackoffSec,
                   lastRateLimitNoticeTs, backoffSlept, rateLimitsLeft,
                   markPriceFeed, normVars, schedVars,
                   pending>>

NextHistory == AppendStep

SpecHistory == InitHistory /\ [][NextHistory]_vars

(* the records an append is given: its lines with the time of the call *)
Stamped(lines) == [i \in 1..Len(lines) |-> [ts |-> now, line |-> lines[i]]]

(* C28 - Audit log bound: after an append the history holds at most max_keep
   records, and they are the last ones of the old history followed by the
   appended lines, in that order. *)
HistoryBound ==
    [][pc = "append" =>
          LET all == history \o Stamped(messages')
              n == Len(history')
          IN /\ n = Min(Len(all), cfg.max_keep)
             /\ \A i \in 1..n : history'[i] = all[Len(all) - n + i]
      ]_vars

(* the file has received more lines than the history keeps: records were
   evicted, those left are in append order *)
HistoryBoundWitness ==
    /\ pc = "append"
    /\ cfg.max_keep = 2
    /\ Len(history) = 2
    /\ Len(logFile) = 4
    /\ history[1] = logFile[3]
    /\ history[2] = logFile[4]
    /\ history[1].ts < history[2].ts

(* C29 - A failure to write the log file is swallowed: no exception leaves
   the append, and the history after it is the old one with the new lines,
   cut to max_keep, whatever the file did. *)
SinkFailureSwallowed ==
    [][pc = "append" =>
          /\ caught' = ""
          /\ LET all == history \o Stamped(messages')
             IN history' = SubSeq(all, Max(1, Len(all) - cfg.max_keep + 1), Len(all))
      ]_vars

(* lines were given with a log file set, the history has them, the file
   has nothing *)
SinkFailureWitness ==
    /\ pc = "append"
    /\ cfg.log_file # ""
    /\ cfg.max_keep = MaxKeep
    /\ Len(history) = 2
    /\ logFile = <<>>
    /\ caught = ""

----------------------------------------------------------------------------
(* The position snapshot on its own, from raw positions that may lack a
   usable mark price *)

(* _fetch_mark_prices_for_symbols: a symbol whose lookup fails or gives no
   positive price is left out *)
FetchMarkPricesForSymbols(symbols, feed) ==
    [s \in {t \in symbols : feed[t] > 0} |-> feed[s]]

(* one entry of the positions list with its profit fields; pnl_pct is
   counted in 0.01% *)
SnapshotPosition(p, mark_dict) ==
    LET entry == p.entryPrice
        mark == IF p.markPrice > 0 THEN p.markPrice
                ELSE IF p.symbol \in DOMAIN mark_dict THEN mark_dict[p.symbol]
                ELSE entry
        qty_abs == Abs(p.positionAmt)
        denom == qty_abs * entry
    IN [symbol |-> p.symbol,
        position_side |-> GetPositionSide(p),
        qty |-> qty_abs,
        entry |-> entry,
        mark |-> mark,
        pnl |-> p.unrealizedProfit,
        pnl_pct |-> IF denom > 0 THEN (p.unrealizedProfit * PctDen) \div denom
                    ELSE 0]

(* _fetch_positions_snapshot with the profit fields, from the raw positions
   and the answers of the mark-price lookup *)
FetchPositionsSnapshotRaw(raw_account, feed) ==
    LET raw == SelectSeq(raw_account, IsOpen)
        symbols_need_mark ==
            {raw[i].symbol : i \in {j \in 1..Len(raw) : raw[j].markPrice <= 0}}
        mark_dict == FetchMarkPricesForSymbols(symbols_need_mark, feed)
    IN SortDesc([i \in 1..Len(raw) |-> SnapshotPosition(raw[i], mark_dict)])

MaxAmt == 2            \* largest position amount

(* raw positions of one symbol the exchange may report: closed or open, with
   or without mark price, at a loss, flat or in profit *)
RawPositions(symbol, position_side) ==
    [symbol : {symbol},
     positionSide : {position_side},
     positionAmt : {IF position_side = "LONG" THEN a ELSE -a : a \in 0..MaxAmt},
     entryPrice : {20000},
     markPrice : {0, 20200},
     unrealizedProfit : {-200, 0, 200}]

InitSnapshot ==
    /\ cfg \in Options({"breakeven"}, {FALSE}, {FALSE}, {BufferTicks}, {{}})
    /\ now = StartTime
    /\ pc = "snapshot"
    /\ account \in {<<b, e>> : b \in RawPositions("BTCUSDT", "LONG"),
                               e \in RawPositions("ETHUSDT", "SHORT")}
    /\ orders = {}
    /\ tickCache = [s \in Symbols |-> 0]
    /\ lastUpdate = [k \in Keys |-> 0]
    /\ snapshot = <<>>
    /\ idx = 0
    /\ nowTs = 0
    /\ messages = <<>>
    /\ history = <<>>
    /\ calls = <<>>
    /\ last = NoEval
    /\ faults = 0
    /\ symbolInfoCache = [s \in Symbols |-> 0]
    /\ traderRuns = 0
    /\ candidates = [position_side |-> "", stop_orders |-> <<>>]
    /\ picked = -1
    /\ LoopIdle
    /\ rateLimitsLeft = 0
    /\ pollsLeft = MaxPolls
    /\ markPriceFeed \in [Symbols -> {0, 20100}]
    /\ priceArg = NoPriceArg
    /\ normalized = <<>>
    /\ SchedulerIdle
    /\ TraderIdle

(* snapshot = _fetch_positions_snapshot(client) *)
SnapshotStep ==
    /\ pc = "snapshot"
    /\ snapshot' = FetchPositionsSnapshotRaw(account, markPriceFeed)
    /\ pc' = "built"
    /\ UNCHANGED <<cfg, now, account, orders, tickCache, lastUpdate, idx,
                   nowTs, messages, history, calls, last, faults,
                   symbolInfoCache, traderRuns, pickVars, loopVars, logFile,
                   markPriceFeed, normVars, schedVars,
                   pending>>

NextSnapshot == SnapshotStep

SpecSnapshot == InitSnapshot /\ [][NextSnapshot]_vars

(* the exchange reports no usable mark price for the position of this
   symbol and the mark-price lookup gives none either *)
Degraded(symbol) ==
    /\ markPriceFeed[symbol] <= 0
    /\ \E j \in DOMAIN account :
          account[j].symbol = symbol /\ account[j].markPrice <= 0

(* C30 - Degraded mark price: a position without usable mark price whose
   mark-price lookup fails too is in the snapshot with the entry price as
   mark price and a pnl_percent of 0. *)
DegradedMarkFlat ==
    pc = "built" =>
        \A j \in DOMAIN account :
            (IsOpen(account[j]) /\ Degraded(account[j].symbol))
                => \E i \in DOMAIN snapshot :
                      /\ snapshot[i].symbol = account[j].symbol
                      /\ snapshot[i].mark = snapshot[i].entry
                      /\ snapshot[i].pnl_pct = 0

----------------------------------------------------------------------------
(* Anti-flap and allow-list *)

(* C38 - Anti-flap: an engine iteration that finds an effective stop and
   computes a new stop less than one tick away from it issues no cancel and
   no place, changes no order and leaves the throttle timestamp and the
   messages as they are. *)
AntiFlap ==
    [][( /\ pc = "engine"
         /\ last'.listed
         /\ last'.current_sl > 0
         /\ last'.new_sl > 0
         /\ Abs(last'.new_sl - last'.current_sl) < last'.tick )
          => /\ calls' = <<>>
             /\ orders' = orders
             /\ lastUpdate' = lastUpdate
             /\ messages' = messages
      ]_vars

(* a stop the engine placed in an earlier cycle sits at the target computed
   now, and the throttle would have let an update through *)
AntiFlapWitness ==
    /\ pc = "engine"
    /\ last.outcome = "no_change"
    /\ last.new_sl = last.current_sl
    /\ lastUpdate[LastKey] > 0
    /\ nowTs - lastUpdate[LastKey] >= cfg.min_interval_sec
    /\ calls = <<>>

(* C40 - Symbol allow-list: with a symbols filter set, an engine iteration
   for a position whose symbol is not in the filter lists no orders, issues
   no cancel and no place, changes no order and no throttle timestamp. *)
AllowList ==
    [][( /\ pc = "engine"
         /\ idx <= Len(snapshot)
         /\ cfg.symbols_filter # {}
         /\ snapshot[idx].symbol \notin cfg.symbols_filter )
          => /\ ~last'.listed
             /\ last'.lookup = "none"
             /\ calls' = <<>>
             /\ orders' = orders
             /\ lastUpdate' = lastUpdate
             /\ messages' = messages
      ]_vars

(* a position outside the filter is passed over in a later cycle, in profit
   past the buffer, while the position inside the filter has been updated *)
AllowListWitness ==
    /\ pc = "engine"
    /\ last.outcome = "filtered"
    /\ last.symbol = "ETHUSDT"
    /\ last.mark <= 19890
    /\ cfg.symbols_filter = {"BTCUSDT"}
    /\ lastUpdate[<<"BTCUSDT", "LONG">>] > 0
    /\ lastUpdate[<<"ETHUSDT", "SHORT">>] = 0
    /\ now > StartTime

----------------------------------------------------------------------------
(* Result of a replacement *)

(* C36 - After a replacement whose cancels and place all succeeded, exactly
   one stop-loss order rests on the exchange for the key, at the new stop
   price. *)
SingleStopAfterReplace ==
    (last.outcome = "updated" /\ \A i \in DOMAIN calls : calls[i].ok)
        => /\ Cardinality(RestingStops(LastKey)) = 1
           /\ \A o \in RestingStops(LastKey) : o.stopPrice = last.new_sl

----------------------------------------------------------------------------
(* lock_profit with entry prices that are not multiples of the tick (an
   average fill price) and a trailing distance wider than the activation
   threshold *)

WideTrailPct == 100    \* --sl-trail-pct 1.0

(* BTCUSDT entry 100.005 with tick 0.01, ETHUSDT entry 100.01 with tick 0.025 *)
PositionsOffGrid ==
    <<[symbol |-> "BTCUSDT", positionSide |-> "LONG", positionAmt |-> 1,
       entryPrice |-> 20001],
      [symbol |-> "ETHUSDT", positionSide |-> "SHORT", positionAmt |-> -1,
       entryPrice |-> 20002]>>

InitLockProfit ==
    /\ cfg \in {[c EXCEPT !.trail_pct = t] :
                   c \in Options({"lock_profit"}, {FALSE}, {FALSE},
                                 {0, BufferTicks}, {{}}),
                   t \in {TrailPct, WideTrailPct}}
    /\ now = StartTime
    /\ pc = "fetch"
    /\ account = PositionsOffGrid
    /\ orders \in {{}, {Order(1, "BTCUSDT", "LONG", "STOP_MARKET", 19990, "base_order", TRUE)}}
    /\ tickCache = [s \in Symbols |-> 0]
    /\ lastUpdate = [k \in Keys |-> 0]
    /\ snapshot = <<>>
    /\ idx = 0
    /\ nowTs = 0
    /\ messages = <<>>
    /\ history = <<>>
    /\ calls = <<>>
    /\ last = NoEval
    /\ faults = 0
    /\ symbolInfoCache = [s \in Symbols |-> 0]
    /\ traderRuns = 0
    /\ candidates = [position_side |-> "", stop_orders |-> <<>>]
    /\ picked = -1
    /\ LoopIdle
    /\ rateLimitsLeft = 0
    /\ pollsLeft = MaxPolls
    /\ NormalizeIdle
    /\ SchedulerIdle
    /\ TraderIdle

SpecLockProfit == InitLockProfit /\ [][Next]_vars

(* C32 - lock_profit: every stop the engine places while the position is in
   profit is at the entry price or better, after tick rounding: not below it
   for LONG, not above it for SHORT. *)
LockProfitAtOrPastEntry ==
    (cfg.mode = "lock_profit" /\ last.outcome = "updated")
        => \A i \in Places :
              /\ last.position_side = "LONG"
                 => (last.mark > last.entry => calls[i].price >= last.entry)
              /\ last.position_side = "SHORT"
                 => (last.mark < last.entry => calls[i].price <= last.entry)

----------------------------------------------------------------------------
(* The monitor on a hedge-mode account (LONG and SHORT positions) and on a
   one-way account (every position has position side BOTH) *)

PositionsOneWay ==
    <<[symbol |-> "BTCUSDT", positionSide |-> "BOTH", positionAmt |-> 1,
       entryPrice |-> 20000],
      [symbol |-> "ETHUSDT", positionSide |-> "BOTH", positionAmt |-> -1,
       entryPrice |-> 20000]>>

InitOneWay ==
    /\ cfg \in Options({"lock_profit", "breakeven"}, {FALSE}, {FALSE},
                       {BufferTicks}, {{}})
    /\ now = StartTime
    /\ pc = "fetch"
    /\ account \in {Positions, PositionsOneWay}
    /\ orders = {Order(1, "BTCUSDT", "LONG", "STOP_MARKET", 19990, "base_order", TRUE),
                 Order(2, "BTCUSDT", "BOTH", "STOP_MARKET", 19980, "base_order", TRUE)}
    /\ tickCache = [s \in Symbols |-> 0]
    /\ lastUpdate = [k \in Keys |-> 0]
    /\ snapshot = <<>>
    /\ idx = 0
    /\ nowTs = 0
    /\ messages = <<>>
    /\ history = <<>>
    /\ calls = <<>>
    /\ last = NoEval
    /\ faults = 0
    /\ symbolInfoCache = [s \in Symbols |-> 0]
    /\ traderRuns = 0
    /\ candidates = [position_side |-> "", stop_orders |-> <<>>]
    /\ picked = -1
    /\ LoopIdle
    /\ rateLimitsLeft = 0
    /\ pollsLeft = MaxPolls
    /\ NormalizeIdle
    /\ SchedulerIdle
    /\ TraderIdle

SpecOneWay == InitOneWay /\ [][Next]_vars

(* C37 - Every order an engine iteration adds to the exchange is a
   STOP_MARKET close-position order of the iteration's key on the closing
   side, SELL for LONG and BUY for SHORT; an iteration for a position with
   position side BOTH lists nothing, issues no cancel and no place and
   changes no order and no throttle timestamp. *)
OnlyClosingStops ==
    [][(pc = "engine" /\ idx <= Len(snapshot))
          => /\ \A o \in orders' \ orders :
                   /\ o.type = "STOP_MARKET"
                   /\ o.closePosition
                   /\ o.symbol = snapshot[idx].symbol
                   /\ o.positionSide = snapshot[idx].position_side
                   /\ \/ o.positionSide = "LONG" /\ o.side = "SELL"
                      \/ o.positionSide = "SHORT" /\ o.side = "BUY"
             /\ snapshot[idx].position_side = "BOTH"
                   => /\ ~last'.listed
                      /\ calls' = <<>>
                      /\ orders' = orders
                      /\ lastUpdate' = lastUpdate
      ]_vars

(* a stop placed for the SHORT position rests as a BUY close-position
   order *)
OnlyClosingStopsWitness ==
    /\ last.outcome = "updated"
    /\ last.position_side = "SHORT"
    /\ \E i \in Places : \E o \in orders :
          /\ o.id = calls[i].id
          /\ o.side = "BUY"
          /\ o.type = "STOP_MARKET"
          /\ o.closePosition
          /\ o.stopPrice = last.new_sl

----------------------------------------------------------------------------
(* The monitor through a long run of rate-limited cycles *)

DeepRateLimits == 6
DeepPolls == 5

InitBackoffDeep ==
    /\ cfg \in Options({"breakeven"}, {TRUE}, {FALSE}, {BufferTicks},
                       {{"BTCUSDT"}})
    /\ now = StartTime
    /\ pc = "fetch"
    /\ account = Positions
    /\ orders = {Order(1, "BTCUSDT", "LONG", "STOP_MARKET", 19990, "base_order", TRUE)}
    /\ tickCache = [s \in Symbols |-> 0]
    /\ lastUpdate = [k \in Keys |-> 0]
    /\ snapshot = <<>>
    /\ idx = 0
    /\ nowTs = 0
    /\ messages = <<>>
    /\ history = <<>>
    /\ calls = <<>>
    /\ last = NoEval
    /\ faults = 0
    /\ symbolInfoCache = [s \in Symbols |-> 0]
    /\ traderRuns = 0
    /\ candidates = [position_side |-> "", stop_orders |-> <<>>]
    /\ picked = -1
    /\ LoopIdle
    /\ rateLimitsLeft = DeepRateLimits
    /\ pollsLeft = DeepPolls
    /\ NormalizeIdle
    /\ SchedulerIdle
    /\ TraderIdle

SpecBackoffDeep == InitBackoffDeep /\ [][Next]_vars

(* C39 - The rate-limit backoff delay is always one of 0, 3, 6, 12, 24, 30
   seconds; a successful position-snapshot fetch resets it to 0, and a rate
   limit raised later in that cycle sleeps the base 3 seconds. *)
BackoffStateInvariant ==
    /\ [](rateLimitBackoffSec \in {0, 3, 6, 12, 24, 30})
    /\ [][/\ (pc = "fetch" /\ pc' = "engine") => rateLimitBackoffSec' = 0
          /\ (pc = "engine" /\ caught' = "rate_limit")
                => /\ rateLimitBackoffSec = 0
                   /\ rateLimitBackoffSec' = 3
                   /\ now' - now = 3
         ]_vars

(* the sixth rate-limited cycle in a row sleeps the cap again *)
BackoffStateWitness ==
    /\ caught = "rate_limit"
    /\ rateLimitBackoffSec = 30
    /\ backoffSlept = 30
    /\ rateLimitsLeft <= DeepRateLimits - 6

----------------------------------------------------------------------------
(* Stepwise mode left alone with an exchange that answers every call: the
   stops start two steps away from the entry price, nothing fails, no other
   program changes the orders, and the loop keeps running for ConvergePolls
   further cycles *)

ConvergePolls == 4

InitConverge ==
    /\ cfg \in Options({"breakeven"}, {FALSE}, {FALSE}, {BufferTicks}, {{}})
    /\ now = StartTime
    /\ pc = "fetch"
    /\ account \in {Positions, PositionsOffGrid}
    /\ orders = {Order(1, "BTCUSDT", "LONG", "STOP_MARKET", 19980, "base_order", TRUE),
                 Order(2, "ETHUSDT", "SHORT", "STOP_MARKET", 20020, "base_order", TRUE)}
    /\ tickCache = [s \in Symbols |-> 0]
    /\ lastUpdate = [k \in Keys |-> 0]
    /\ snapshot = <<>>
    /\ idx = 0
    /\ nowTs = 0
    /\ messages = <<>>
    /\ history = <<>>
    /\ calls = <<>>
    /\ last = NoEval
    /\ faults = MaxFaults
    /\ symbolInfoCache = [s \in Symbols |-> 0]
    /\ traderRuns = 0
    /\ candidates = [position_side |-> "", stop_orders |-> <<>>]
    /\ picked = -1
    /\ LoopIdle
    /\ rateLimitsLeft = 0
    /\ pollsLeft = ConvergePolls
    /\ NormalizeIdle
    /\ SchedulerIdle
    /\ TraderIdle

(* the loop is one thread that keeps running: a cycle that can start, return
   from the engine or sleep does so, and the engine's for loop over the
   positions of a snapshot comes to its end *)
SpecConverge ==
    /\ InitConverge
    /\ [][Next]_vars
    /\ WF_vars(FetchSnapshot)
    /\ WF_vars(EngineReturn)
    /\ WF_vars(Sleep)
    /\ []<>~(pc = "engine" /\ idx <= Len(snapshot))

(* every mark price of the key in a snapshot is past the entry price by the
   safety buffer, buffer_ticks times the tick the engine uses, or more *)
MarkPastBuffer(symbol) ==
    \A i \in 1..Len(snapshot) :
        snapshot[i].symbol = symbol
            => IF snapshot[i].position_side = "LONG"
               THEN snapshot[i].mark
                        >= snapshot[i].entry + cfg.buffer_ticks * tickCache[symbol]
               ELSE snapshot[i].mark
                        <= snapshot[i].entry - cfg.buffer_ticks * tickCache[symbol]

(* the one stop of the key rests at the entry price rounded to the tick the
   engine uses, down for LONG and up for SHORT *)
StopAtEntry(symbol) ==
    /\ tickCache[symbol] > 0
    /\ \E i \in 1..Len(account) :
        /\ account[i].symbol = symbol
        /\ {o.stopPrice : o \in RestingStops(<<symbol, account[i].positionSide>>)}
             = {IF account[i].positionSide = "LONG"
                THEN (account[i].entryPrice \div tickCache[symbol]) * tickCache[symbol]
                ELSE ((account[i].entryPrice + tickCache[symbol] - 1)
                          \div tickCache[symbol]) * tickCache[symbol]}

(* C35 - Stepwise mode converges and then stays quiet: while the mark price
   stays past entry by the buffer, every call succeeds and nobody else
   changes the orders, the stop of the LONG key ends up at the entry price
   rounded down to the tick (rounded up for the SHORT key) and stays there;
   once it is there, no engine iteration cancels or places anything for the
   key. *)
StepwiseConverges ==
    /\ []MarkPastBuffer("BTCUSDT") => <>[]StopAtEntry("BTCUSDT")
    /\ []MarkPastBuffer("ETHUSDT") => <>[]StopAtEntry("ETHUSDT")
    /\ [][(pc = "engine" /\ idx <= Len(snapshot))
             => (StopAtEntry(snapshot[idx].symbol)
                    => calls' = <<>> /\ orders' = orders)
         ]_vars

(* the second step, one throttle interval after the first, has brought the
   stop of the off-grid LONG entry 100.005 to 100.00 *)
StepwiseConvergesWitness ==
    /\ account = PositionsOffGrid
    /\ StopAtEntry("BTCUSDT")
    /\ lastUpdate[<<"BTCUSDT", "LONG">>] > StartTime
    /\ last.outcome = "no_change"
    /\ last.symbol = "BTCUSDT"

----------------------------------------------------------------------------
(* The trade executor's _update_tp_sl on its own, on an account whose keys
   have any of a stop-loss and a take-profit order resting *)

TraderOrders ==
    {Order(1, "BTCUSDT", "LONG", "STOP_MARKET", 19900, "base_order", TRUE),
     Order(2, "BTCUSDT", "LONG", "TAKE_PROFIT_MARKET", 20300, "base_order", TRUE),
     Order(3, "ETHUSDT", "SHORT", "STOP", 20100, "algo_order", TRUE),
     Order(4, "ETHUSDT", "SHORT", "TAKE_PROFIT", 19700, "algo_order", TRUE)}

InitTraderOnly ==
    /\ cfg \in Options({"breakeven"}, {FALSE}, {FALSE}, {BufferTicks}, {{}})
    /\ now = StartTime
    /\ pc = "trader"
    /\ account = Positions
    /\ orders \in SUBSET TraderOrders
    /\ tickCache = [s \in Symbols |-> 0]
    /\ lastUpdate = [k \in Keys |-> 0]
    /\ snapshot = <<>>
    /\ idx = 0
    /\ nowTs = 0
    /\ messages = <<>>
    /\ history = <<>>
    /\ calls = <<>>
    /\ last = NoEval
    /\ faults = 0
    /\ symbolInfoCache = [s \in Symbols |-> 0]
    /\ traderRuns = 0
    /\ candidates = [position_side |-> "", stop_orders |-> <<>>]
    /\ picked = -1
    /\ LoopIdle
    /\ rateLimitsLeft = 0
    /\ pollsLeft = 0
    /\ NormalizeIdle
    /\ SchedulerIdle
    /\ TraderIdle

NextTraderOnly == UpdateTpSl

SpecTraderOnly == InitTraderOnly /\ [][NextTraderOnly]_vars

(* orders of one class, "sl" or "tp", in a set of orders *)
OfClass(os, kind) ==
    {o \in os : o.type \in IF kind = "sl" THEN {"STOP", "STOP_MARKET"}
                           ELSE {"TAKE_PROFIT", "TAKE_PROFIT_MARKET"}}

(* C34 - _update_tp_sl cancels only the class it updates: an update with a
   stop-loss and no take-profit sends no cancel for a take-profit order and
   leaves every take-profit order resting, an update with a take-profit and
   no stop-loss does the same for the stop-loss orders, and an update with
   neither sends no cancel and no place and leaves the orders as they are. *)
UpdateCancelsOwnClass ==
    [][traderRuns' > traderRuns
          => /\ last'.new_tp = 0
                   => /\ OfClass(orders', "tp") = OfClass(orders, "tp")
                      /\ \A i \in DOMAIN calls' :
                            /\ calls'[i].op # "place_tp"
                            /\ calls'[i].op = "cancel"
                                  => calls'[i].id \notin
                                        {o.id : o \in OfClass(orders, "tp")}
             /\ last'.new_sl = 0
                   => /\ OfClass(orders', "sl") = OfClass(orders, "sl")
                      /\ \A i \in DOMAIN calls' :
                            /\ calls'[i].op # "place"
                            /\ calls'[i].op = "cancel"
                                  => calls'[i].id \notin
                                        {o.id : o \in OfClass(orders, "sl")}
             /\ (last'.new_sl = 0 /\ last'.new_tp = 0)
                   => /\ orders' = orders
                      /\ \A i \in DOMAIN calls' :
                            calls'[i].op \notin {"cancel", "place", "place_tp"}
      ]_vars

(* a stop-loss-only update has replaced the stop of BTCUSDT LONG next to the
   resting take-profit order *)
UpdateCancelsOwnClassWitness ==
    /\ last.outcome = "trader"
    /\ last.symbol = "BTCUSDT"
    /\ last.new_sl # 0
    /\ last.new_tp = 0
    /\ \E i \in DOMAIN calls : calls[i].op = "cancel" /\ calls[i].ok /\ calls[i].id = 1
    /\ \E i \in DOMAIN calls : calls[i].op = "place" /\ calls[i].ok
    /\ \E o \in orders : o.id = 2 /\ o.type = "TAKE_PROFIT_MARKET"

----------------------------------------------------------------------------
(* scheduler.py: the guard of the signal loop in front of execute_trade.
   A field of a signal is missing, a text float() raises on, the float nan
   (the JSON literal NaN, or the text "nan"), a number, or a number written
   as text ("106").  A float is None, nan or a number; comparisons with nan
   are false, arithmetic with nan gives nan. *)

NEW_OPEN_ACTIONS == {"open_long", "open_short"}

VALID_ACTIONS ==
    {"open_long", "open_short", "close_long", "close_short", "reverse",
     "stop_loss", "take_profit", "update_stop_loss", "update_take_profit",
     "increase_position", "decrease_position"}

\* MIN_RR = 1.5 as the fraction MinRrNum / MinRrDen
MinRrNum == 3
MinRrDen == 2

None == [kind |-> "none", val |-> 0]
NaN == [kind |-> "nan", val |-> 0]
Num(n) == [kind |-> "num", val |-> n]

(* _safe_float: float(v), None when float() raises *)
SafeFloat(v) ==
    IF v.kind \in {"missing", "text"} THEN None
    ELSE IF v.kind = "nan" THEN NaN
    ELSE Num(v.val)

(* a - b in floats *)
FloatSub(a, b) ==
    IF a.kind = "nan" \/ b.kind = "nan" THEN NaN ELSE Num(a.val - b.val)

(* x <= 0 in floats *)
FloatLeZero(x) == x.kind = "num" /\ x.val <= 0

(* _calc_rr: None, or reward / risk as the pair of the two *)
CalcRr(action, entry, stop_loss, take_profit) ==
    IF action \notin NEW_OPEN_ACTIONS
    THEN [kind |-> "none", reward |-> 0, risk |-> 0]
    ELSE LET risk == IF action = "open_long" THEN FloatSub(entry, stop_loss)
                     ELSE FloatSub(stop_loss, entry)
             reward == IF action = "open_long" THEN FloatSub(take_profit, entry)
                       ELSE FloatSub(entry, take_profit)
         IN IF FloatLeZero(risk) \/ FloatLeZero(reward)
            THEN [kind |-> "none", reward |-> 0, risk |-> 0]
            ELSE IF risk.kind = "nan" \/ reward.kind = "nan"
            THEN [kind |-> "nan", reward |-> 0, risk |-> 0]
            ELSE [kind |-> "num", reward |-> reward.val, risk |-> risk.val]

(* rr < MIN_RR in floats *)
BelowMinRr(rr) ==
    rr.kind = "num" /\ rr.reward * MinRrDen < MinRrNum * rr.risk

(* the body of the loop over the signals for one signal: TRUE when it
   reaches execute_trade *)
HandsToExecuteTrade(sig) ==
    /\ sig.action # ""
    /\ ~(sig.action \in NEW_OPEN_ACTIONS /\ ~sig.allowed)
    /\ sig.action \in NEW_OPEN_ACTIONS
          => LET entry == SafeFloat(sig.entry)
                 sl_f == SafeFloat(sig.stop_loss)
                 tp_f == SafeFloat(sig.take_profit)
             IN /\ ~(entry = None \/ sl_f = None \/ tp_f = None)
                /\ LET rr == CalcRr(sig.action, entry, sl_f, tp_f)
                   IN ~(rr.kind = "none" \/ BelowMinRr(rr))
    /\ sig.action \in VALID_ACTIONS

(* prices a signal may carry, around the entry price 100 *)
SignalPrices == {93, 94, 95, 96, 100, 104, 105, 106, 107}

SignalValues ==
    {[kind |-> k, val |-> 0] : k \in {"missing", "text", "nan"}}
    \cup {[kind |-> "num", val |-> n] : n \in SignalPrices}
    \cup {[kind |-> "numstr", val |-> n] : n \in {100, 106}}

Signals ==
    [action : {"open_long", "open_short", "close_long"},
     allowed : BOOLEAN,
     entry : SignalValues,
     stop_loss : SignalValues,
     take_profit : SignalValues]

InitScheduler ==
    /\ cfg \in Options({"breakeven"}, {FALSE}, {FALSE}, {BufferTicks}, {{}})
    /\ now = StartTime
    /\ pc = "schedule"
    /\ account = Positions
    /\ orders = {}
    /\ tickCache = [s \in Symbols |-> 0]
    /\ lastUpdate = [k \in Keys |-> 0]
    /\ snapshot = <<>>
    /\ idx = 0
    /\ nowTs = 0
    /\ messages = <<>>
    /\ history = <<>>
    /\ calls = <<>>
    /\ last = NoEval
    /\ faults = 0
    /\ symbolInfoCache = [s \in Symbols |-> 0]
    /\ traderRuns = 0
    /\ candidates = [position_side |-> "", stop_orders |-> <<>>]
    /\ picked = -1
    /\ LoopIdle
    /\ rateLimitsLeft = 0
    /\ pollsLeft = 0
    /\ NormalizeIdle
    /\ signal \in Signals
    /\ handed = ""
    /\ TraderIdle

(* one pass of the loop body over the signal *)
ScheduleStep ==
    /\ pc = "schedule"
    /\ handed = ""
    /\ handed' = IF HandsToExecuteTrade(signal) THEN "executed" ELSE "dropped"
    /\ UNCHANGED <<cfg, now, pc, account, orders, tickCache, lastUpdate,
                   snapshot, idx, nowTs, messages, history, calls, last,
                   faults, symbolInfoCache, traderRuns, pickVars, loopVars,
                   logFile, markPriceFeed, normVars, signal, pending>>

NextScheduler == ScheduleStep

SpecScheduler == InitScheduler /\ [][NextScheduler]_vars

(* C33 - Scheduler open guard: an open_long or open_short signal that is
   handed to execute_trade carries numbers for entry, stop_loss and
   take_profit, with risk > 0, reward > 0 and reward / risk >= 1.5. *)
OpenGuard ==
    (handed = "executed" /\ signal.action \in {"open_long", "open_short"})
        => /\ signal.entry.kind \in {"num", "numstr"}
           /\ signal.stop_loss.kind \in {"num", "numstr"}
           /\ signal.take_profit.kind \in {"num", "numstr"}
           /\ LET e == signal.entry.val
                  s == signal.stop_loss.val
                  t == signal.take_profit.val
                  risk == IF signal.action = "open_long" THEN e - s ELSE s - e
                  reward == IF signal.action = "open_long" THEN t - e ELSE e - t
              IN risk > 0 /\ reward > 0 /\ 2 * reward >= 3 * risk

----------------------------------------------------------------------------
(* The monitor and the trade executor as the two processes they are, on one
   account: _update_tp_sl is a cancel, a one-second sleep and a place, and
   the monitor's loop runs during the sleep.  Every exchange call succeeds. *)

(* _update_tp_sl up to its sleep: _cancel_tp_sl has cancelled the orders of
   the classes being updated *)
TraderCancel ==
    /\ ~pending.active
    /\ traderRuns < MaxTraderRuns
    /\ traderRuns' = traderRuns + 1
    /\ \E n \in 1..Len(account) :
       \E sl \in TraderStops(account[n].positionSide),
          tp \in TraderTakeProfits(account[n].positionSide) :
       LET symbol == account[n].symbol
           side == account[n].positionSide
           targets == CancelTpSlTargets(symbol, side, sl # 0, tp # 0, TRUE, TRUE)
       IN /\ sl # 0 \/ tp # 0
          /\ orders' = AfterCancel(orders, targets, {})
          /\ pending' = [active |-> TRUE, symbol |-> symbol,
                         position_side |-> side, sl |-> sl, tp |-> tp]
    /\ UNCHANGED <<monitorVars, account, calls, last, faults, symbolInfoCache,
                   pickVars, loopVars, logFile, markPriceFeed, normVars,
                   schedVars>>

(* _update_tp_sl after its sleep: _place_tp_sl places the new orders *)
TraderPlace ==
    /\ pending.active
    /\ LET symbol == pending.symbol
           side == pending.position_side
           tick == TraderTick(symbol, "ok")
           slOrder == TraderOrder(orders, symbol, side, "STOP_MARKET",
                                  NormalizePrice(tick, pending.sl))
           withSl == IF pending.sl # 0 THEN orders \cup {slOrder} ELSE orders
           tpOrder == TraderOrder(withSl, symbol, side, "TAKE_PROFIT_MARKET",
                                  NormalizePrice(tick, pending.tp))
       IN /\ orders' = IF pending.tp # 0 THEN withSl \cup {tpOrder} ELSE withSl
          /\ symbolInfoCache' = [symbolInfoCache EXCEPT ![symbol] = tick]
    /\ pending' = NoPending
    /\ UNCHANGED <<monitorVars, account, calls, last, faults, traderRuns,
                   pickVars, loopVars, logFile, markPriceFeed, normVars,
                   schedVars>>

InitInterleave ==
    /\ cfg \in Options({"breakeven"}, {FALSE}, {FALSE}, {BufferTicks}, {{}})
    /\ now = StartTime
    /\ pc = "fetch"
    /\ account = Positions
    /\ orders = {Order(1, "BTCUSDT", "LONG", "STOP_MARKET", 19990, "base_order", TRUE)}
    /\ tickCache = [s \in Symbols |-> 0]
    /\ lastUpdate = [k \in Keys |-> 0]
    /\ snapshot = <<>>
    /\ idx = 0
    /\ nowTs = 0
    /\ messages = <<>>
    /\ history = <<>>
    /\ calls = <<>>
    /\ last = NoEval
    /\ faults = MaxFaults
    /\ symbolInfoCache = [s \in Symbols |-> 0]
    /\ traderRuns = 0
    /\ candidates = [position_side |-> "", stop_orders |-> <<>>]
    /\ picked = -1
    /\ LoopIdle
    /\ rateLimitsLeft = 0
    /\ pollsLeft = MaxPolls
    /\ NormalizeIdle
    /\ SchedulerIdle
    /\ TraderIdle

NextInterleave == Next \/ TraderCancel \/ TraderPlace

SpecInterleave == InitInterleave /\ [][NextInterleave]_vars

(* C31 - No interleaving of replacements for one key: while a replacement of
   the trade executor for a key is in flight, between its cancel and its
   place, no engine iteration issues a cancel or a place for that key. *)
NoInterleaving ==
    [][(pc = "engine" /\ pending.active /\ pending' = pending)
          => \A i \in DOMAIN calls' :
                ~(/\ calls'[i].op \in {"cancel", "place"}
                  /\ calls'[i].symbol = pending.symbol
                  /\ calls'[i].position_side = pending.position_side)
      ]_vars

====
